---------------------------- MODULE Spec2Model ----------------------------
(***************************************************************************)
(* A model of the unet userspace network stack: the device registry and    *)
(* its open/close/send lifecycle, the L2 and L3 interrupt handlers with    *)
(* the per-protocol queues between them, ARP (cache, resolve, receive),    *)
(* and the IPv4 send and receive paths with ICMP and UDP on top.           *)
(*                                                                         *)
(* Byte buffers are kept exactly, as a record [head, zeros]: the bytes of  *)
(* head followed by `zeros` zero bytes (the TAP read returns a fixed-size, *)
(* zero-filled buffer, so most of a received frame is a run of zeros).     *)
(* IPv4 addresses are 4-tuples of octets (a u32 does not fit TLC's int).   *)
(*                                                                         *)
(* Every handler of the signal loop (handle_irq_l2, handle_irq_l3) and     *)
(* every send of the app thread is one atomic action: the signal loop runs *)
(* one handler at a time, handle_irq_l3 and an app-thread send both hold   *)
(* the context mutex from start to end, and handle_irq_l2 and a send on    *)
(* the same device both hold that device's mutex.                          *)
(***************************************************************************)
EXTENDS Integers, Sequences, FiniteSets, TLC

VARIABLES
    flags,        \* NetDevice.flags of every device (u16 bit field)
    driver,       \* NetDevice.driver of every device: "None" or "Tap"
    hwAddr,       \* NetDevice.hw_addr of every device (its first 6 bytes)
    loQueue,      \* the loopback device's FIFO of frames
    tapRx,        \* frames the kernel holds for the TAP fd, not yet read
    protoQueue,   \* NetProtocol.queue of each protocol type
    arpCache,     \* ArpCache.entries: address -> [state, mac, timestamp]
    idNext,       \* Ipv4IdGenerator.id
    nBuilt,       \* calls of send (ipv4.rs) that got past its checks so far
    irq,          \* signals raised and not yet taken by the signal loop
    now,          \* the clock (seconds)
    panicked,     \* a handler aborted (index out of range, unwrap of None)
    nArrived,     \* frames that arrived on the TAP link so far
    nCalls,       \* calls made by the app thread so far
    enqLog,       \* per protocol queue: entries in the order they were pushed
    deqLog,       \* per protocol queue: entries in the order they were popped
    routes,       \* Ipv4Router.interfaces: the list of routes
    regLog,       \* the routes in the order they were registered
    pcbs,         \* UdpContext.pcbs: the table of UDP bind slots
    threads,      \* where main and the app thread stand, and their channel
    last          \* the last operation: its name, arguments, result, frames

vars == <<flags, driver, hwAddr, loQueue, tapRx, protoQueue, arpCache, idNext,
          nBuilt, irq, now, panicked, nArrived, nCalls, enqLog, deqLog, routes, regLog, pcbs, threads, last>>

----------------------------------------------------------------------------
(* Bounds of the model. *)

\* frames that may arrive on the TAP link in one behaviour
MaxArrivals == 2
\* calls the app thread (or a test) makes in one behaviour
MaxCalls == 2
MaxLocal == 1
\* frames the loopback FIFO holds at most in the device-level specification
MaxLoQueue == 2
\* the clock stops at this many seconds
MaxNow == 600
\* seconds per tick of the clock
TickStep == 300
\* routes a test registers at most
MaxRoutes == 3
\* an identification counter two sends before its wrap
IdNearWrap == 65534

----------------------------------------------------------------------------
(* Arithmetic on fixed-width integers. *)

\* 2^n for n < 16
Pow2(n) ==
    <<1, 2, 4, 8, 16, 32, 64, 128, 256, 512, 1024, 2048, 4096, 8192, 16384,
      32768>>[n + 1]

Bit(x, i) ==
    (x \div Pow2(i)) % 2

RECURSIVE BitAndN(_, _, _)
BitAndN(a, b, n) ==
    IF n = 0 THEN 0
    ELSE LET i == n - 1
         IN  Bit(a, i) * Bit(b, i) * Pow2(i) + BitAndN(a, b, i)

\* a & b on u16
BitAnd16(a, b) ==
    BitAndN(a, b, 16)

\* a | b on u16
BitOr16(a, b) ==
    a + b - BitAnd16(a, b)

\* !a on u16
BitNot16(a) ==
    65535 - a

\* a & b on u8
BitAnd8(a, b) ==
    BitAndN(a, b, 8)

Min(a, b) ==
    IF a < b THEN a ELSE b

Max(a, b) ==
    IF a < b THEN b ELSE a

----------------------------------------------------------------------------
(* Byte buffers: head followed by `zeros` zero bytes. *)

Buf(h, z) ==
    [head |-> h, zeros |-> z]

\* data.len()
BLen(b) ==
    Len(b.head) + b.zeros

\* data[i], 0-based, for i < data.len()
BAt(b, i) ==
    IF i < Len(b.head) THEN b.head[i + 1] ELSE 0

\* data[from..to], for from <= to <= data.len()
BSlice(b, from, to) ==
    LET h == SubSeq(b.head, from + 1, Min(to, Len(b.head)))
    IN  Buf(h, (to - from) - Len(h))

\* data[from..]
BFrom(b, from) ==
    BSlice(b, from, BLen(b))

RECURSIVE ZeroSeq(_)
ZeroSeq(n) ==
    IF n = 0 THEN <<>> ELSE <<0>> \o ZeroSeq(n - 1)

\* a followed by b
BConcat(a, b) ==
    IF a.zeros = 0 THEN Buf(a.head \o b.head, b.zeros)
    ELSE IF Len(b.head) = 0 THEN Buf(a.head, a.zeros + b.zeros)
    ELSE Buf(a.head \o ZeroSeq(a.zeros) \o b.head, b.zeros)

\* u16::from_be_bytes([data[i], data[i + 1]])
BE16(b, i) ==
    BAt(b, i) * 256 + BAt(b, i + 1)

\* v.to_be_bytes() of a u16
U16Bytes(v) ==
    <<v \div 256, v % 256>>

----------------------------------------------------------------------------
(* Devices (src/devices.rs, devices/null.rs, devices/loopback.rs,          *)
(* driver/tap.rs).                                                         *)

NET_DEVICE_FLAG_UP == 1
NET_DEVICE_FLAG_LOOPBACK == 16
NET_DEVICE_FLAG_NEED_ARP == 256

LOOPBACK_MTU == 65535
NULL_MTU == 1500
ETHERNET_PAYLOAD_MAX_SIZE == 1500
ETHERNET_FRAME_MAX_SIZE == 1514
ETHERNET_HEADER_SIZE == 14
ETHERNET_FRAME_MIN_SIZE == 60

\* NetProtocolType as u16
ETHERTYPE_IPV4 == 2048
ETHERTYPE_ARP == 2054

\* signal numbers of interrupt.rs
INTR_IRQ_LOOPBACK == 36
INTR_IRQ_ETHERNET_TAP == 37
INTR_IRQ_L3 == 38

MAC_ADDRESS_ANY == <<0, 0, 0, 0, 0, 0>>
MAC_ADDRESS_BROADCAST == <<255, 255, 255, 255, 255, 255>>

\* the hardware address the kernel reports for tap0 (SIOCGIFHWADDR)
MacM == <<2, 0, 0, 0, 0, 77>>

\* the devices the code constructs: NetDevice::null(), ::loopback(), ::ethernet_tap()
AllDev == {"null", "lo", "eth"}

\* NetDevices of App::new, in list order
Devices == <<"lo", "eth">>

DevType(d) ==
    CASE d = "null" -> "Null"
      [] d = "lo" -> "Loopback"
      [] d = "eth" -> "Ethernet"

Mtu(d) ==
    CASE d = "null" -> NULL_MTU
      [] d = "lo" -> LOOPBACK_MTU
      [] d = "eth" -> ETHERNET_PAYLOAD_MAX_SIZE

\* flags as the constructors set them
InitFlags(d) ==
    CASE d = "null" -> 0
      [] d = "lo" -> NET_DEVICE_FLAG_LOOPBACK
      [] d = "eth" -> BitOr16(NET_DEVICE_FLAG_LOOPBACK, NET_DEVICE_FLAG_NEED_ARP)

\* irq_entry.irq (the null device's SIGUSR1 is not in the signal loop's set)
DevIrq(d) ==
    CASE d = "null" -> 10
      [] d = "lo" -> INTR_IRQ_LOOPBACK
      [] d = "eth" -> INTR_IRQ_ETHERNET_TAP

is_up(f) ==
    BitAnd16(f, NET_DEVICE_FLAG_UP) # 0

need_arp(f) ==
    BitAnd16(f, NET_DEVICE_FLAG_NEED_ARP) # 0

\* an entry of the ghost record of pushes and raises, in program order
Event(kind, what) ==
    [kind |-> kind, what |-> what]

\* raise(sig): one more pending instance of the signal
Raise(w, sig) ==
    [w EXCEPT !.irq[sig] = @ + 1, !.ev = Append(@, Event("raise", sig))]

\* the result of an operation: the state it leaves and what it returns
Res(w, ret) ==
    [w |-> w, ret |-> ret]

\* ops.open: null and loopback do nothing; the TAP open stores the driver
\* handle, then runs its ioctl/fcntl calls (ok = they all succeed) and reads
\* the hardware address when it is still the all-zero sentinel.
DriverOpen(w, d, ok) ==
    IF d # "eth" THEN Res(w, "Ok")
    ELSE LET w1 == [w EXCEPT !.driver[d] = "Tap"]
         IN  IF ~ok THEN Res(w1, "DriverError")
             ELSE IF w1.hwAddr[d] = MAC_ADDRESS_ANY
                  THEN Res([w1 EXCEPT !.hwAddr[d] = MacM], "Ok")
                  ELSE Res(w1, "Ok")

\* ops.close: a no-op for every driver
DriverClose(w, d) ==
    Res(w, "Ok")

NetDevice_openUpUnchecked(w, d, ok) ==
    LET r == DriverOpen(w, d, ok)
    IN  IF r.ret # "Ok" THEN r
        ELSE Res([r.w EXCEPT !.flags[d] = BitOr16(@, NET_DEVICE_FLAG_UP)], "Ok")

NetDevice_open(w, d, ok) ==
    IF is_up(w.flags[d]) THEN Res(w, "DeviceAlreadyUp")
    ELSE LET r == DriverOpen(w, d, ok)
         IN  IF r.ret # "Ok" THEN r
             ELSE Res([r.w EXCEPT !.flags[d] = BitOr16(@, NET_DEVICE_FLAG_UP)], "Ok")

NetDevice_close(w, d) ==
    IF ~is_up(w.flags[d]) THEN Res(w, "DeviceAlreadyDown")
    ELSE LET r == DriverClose(w, d)
         IN  IF r.ret # "Ok" THEN r
             ELSE Res([r.w EXCEPT !.flags[d] =
                           BitAnd16(@, BitNot16(NET_DEVICE_FLAG_UP))], "Ok")

\* run_net: open every device of the list, in order, up to the first that
\* fails; opened is the ghost list of the devices whose open ran to its end,
\* in the order they did
RECURSIVE run_net_from(_, _, _, _)
run_net_from(w, devices, i, opened) ==
    IF i > Len(devices) THEN [w |-> w, ret |-> "Ok", opened |-> opened]
    ELSE LET r == NetDevice_open(w, devices[i], TRUE)
         IN  IF r.ret # "Ok" THEN [w |-> r.w, ret |-> r.ret, opened |-> opened]
             ELSE run_net_from(r.w, devices, i + 1, Append(opened, devices[i]))

run_net(w, devices) ==
    run_net_from(w, devices, 1, <<>>)

\* stop_net: close every device of the list, in order, up to the first that
\* fails; closed is the ghost list of the devices whose close ran to its
\* end, in the order they did
RECURSIVE stop_net_from(_, _, _, _)
stop_net_from(w, devices, i, closed) ==
    IF i > Len(devices) THEN [w |-> w, ret |-> "Ok", closed |-> closed]
    ELSE LET r == NetDevice_close(w, devices[i])
         IN  IF r.ret # "Ok" THEN [w |-> r.w, ret |-> r.ret, closed |-> closed]
             ELSE stop_net_from(r.w, devices, i + 1, Append(closed, devices[i]))

\* a stop_net that returns after the first device of the list
stop_netFirstOnly(w, devices) ==
    IF devices = <<>> THEN [w |-> w, ret |-> "Ok", closed |-> <<>>]
    ELSE LET r == NetDevice_close(w, devices[1])
         IN  [w |-> r.w, ret |-> r.ret,
              closed |-> IF r.ret = "Ok" THEN <<devices[1]>> ELSE <<>>]

stop_net(w, devices) ==
    stop_net_from(w, devices, 1, <<>>)

\* the Ethernet frame tap::send writes: header, data, zero padding
EthernetFrame(src, ty, dst, data) ==
    LET pad == IF BLen(data) < ETHERNET_FRAME_MIN_SIZE
               THEN ETHERNET_FRAME_MIN_SIZE - BLen(data) ELSE 0
    IN  BConcat(BConcat(Buf(dst \o src \o U16Bytes(ty), 0), data), Buf(<<>>, pad))

\* one invocation of a driver's transmit, as the ghost log keeps it
TxCall(w, d, data, ty, dst) ==
    [dev |-> d, ty |-> ty, dst |-> dst, data |-> data,
     up |-> is_up(w.flags[d]),
     wire |-> IF d = "eth" THEN EthernetFrame(w.hwAddr[d], ty, dst, data)
              ELSE data]

\* ops.transmit: null discards, loopback pushes on its FIFO and raises its
\* IRQ, TAP writes the frame to the fd
DriverTransmit(w, d, data, ty, dst) ==
    LET w1 == [w EXCEPT !.tx = Append(@, TxCall(w, d, data, ty, dst))]
    IN  CASE d = "null" -> Res(w1, "Ok")
          [] d = "lo" ->
                Res(Raise([w1 EXCEPT !.loQueue = Append(@, data),
                                     !.ev = Append(@, Event("fifo", 0))],
                          INTR_IRQ_LOOPBACK), "Ok")
          [] d = "eth" -> Res(w1, "Ok")

NetDevice_sendUnchecked(w, d, data, ty, dst) ==
    DriverTransmit(w, d, data, ty, dst)

NetDevice_send(w, d, data, ty, dst) ==
    IF ~is_up(w.flags[d]) THEN Res(w, "DeviceNotUp")
    ELSE IF BLen(data) > Mtu(d) THEN Res(w, "TooLong")
    ELSE DriverTransmit(w, d, data, ty, dst)

----------------------------------------------------------------------------
(* IPv4 addresses, interfaces and routes (src/protocols/ipv4.rs). *)

IPV4_ANY == <<0, 0, 0, 0>>
IPV4_BROADCAST == <<255, 255, 255, 255>>

\* a & b on Ipv4Address (BitAnd of the u32, octet by octet)
IpAnd(a, b) ==
    <<BitAnd8(a[1], b[1]), BitAnd8(a[2], b[2]), BitAnd8(a[3], b[3]),
      BitAnd8(a[4], b[4])>>

\* a.0 > b.0 on the u32 values
IpGt(a, b) ==
    \E i \in 1..4 : a[i] > b[i] /\ \A j \in 1..(i - 1) : a[j] = b[j]

\* Ipv4Interface::new: broadcast = unicast.0 & 0xffffff00 | !netmask.0 & 0xff
Ipv4Interface_new(unicast, netmask, dev) ==
    [family |-> "Ipv4", unicast |-> unicast, netmask |-> netmask,
     broadcast |-> <<unicast[1], unicast[2], unicast[3], 255 - netmask[4]>>,
     device |-> dev]

\* the interfaces the router tests create on null devices: eth0 and eth1 of
\* test_match_lookup_longest, eth0 of test_match_lookup_default
TestIface(d) ==
    CASE d = "eth0" -> Ipv4Interface_new(<<192, 0, 0, 1>>, <<255, 0, 0, 0>>, "null")
      [] d = "eth1" -> Ipv4Interface_new(<<192, 0, 1, 1>>, <<255, 255, 0, 0>>, "null")
      [] d = "eth0d" -> Ipv4Interface_new(<<192, 0, 0, 1>>, <<255, 255, 0, 0>>, "null")

\* the interfaces App::new creates, named by their device, and those of the
\* tests
Iface(d) ==
    CASE d = "lo" -> Ipv4Interface_new(<<127, 0, 0, 1>>, <<255, 0, 0, 0>>, "lo")
      [] d = "eth" -> Ipv4Interface_new(<<192, 0, 2, 2>>, <<255, 255, 255, 0>>, "eth")
      [] OTHER -> TestIface(d)

\* NetDevice.interfaces after App::new
DevInterfaces(d) ==
    IF d \in {"lo", "eth"} THEN <<d>> ELSE <<>>

\* NetDevice::get_interface: the first interface of the family
get_interface(d, family) ==
    LET l == DevInterfaces(d)
        hits == {i \in 1..Len(l) : Iface(l[i]).family = family}
    IN  IF hits = {} THEN "None"
        ELSE l[CHOOSE i \in hits : \A j \in hits : i <= j]

\* Ipv4Router::register: append, with the interface's netmask (next_hop is
\* an Option: <<>> or <<address>>)
Ipv4Router_register(rs, network, ifc) ==
    Append(rs, [network |-> network, netmask |-> Iface(ifc).netmask,
                interface |-> ifc, next_hop |-> <<>>])

\* Ipv4Router::register_default: prepend 0.0.0.0/0 with the gateway
Ipv4Router_register_default(rs, ifc, gateway) ==
    <<[network |-> IPV4_ANY, netmask |-> IPV4_ANY, interface |-> ifc,
       next_hop |-> <<gateway>>]>> \o rs

\* Option<T>: None, or Some(x)
None == <<>>

Some(x) == <<x>>

\* a lookup step that keeps the first route that matches
LookupStepFirstMatch(cand, r, dst) ==
    IF IpAnd(dst, r.netmask) = r.network /\ cand = <<>>
    THEN <<r>> ELSE cand

\* a lookup step that prefers the numerically smaller netmask
LookupStepShortest(cand, r, dst) ==
    IF /\ IpAnd(dst, r.netmask) = r.network
       /\ (cand = <<>> \/ IpGt(cand[1].netmask, r.netmask))
    THEN <<r>> ELSE cand

\* one step of lookup's loop: the candidate after looking at route r
LookupStep(cand, r, dst) ==
    IF /\ IpAnd(dst, r.netmask) = r.network
       /\ (cand = None \/ IpGt(r.netmask, cand[1].netmask))
    THEN Some(r) ELSE cand

RECURSIVE LookupFrom(_, _, _, _)
LookupFrom(rs, i, cand, dst) ==
    IF i > Len(rs) THEN cand
    ELSE LookupFrom(rs, i + 1, LookupStep(cand, rs[i], dst), dst)

\* Ipv4Router::lookup: None or Some(route)
Ipv4Router_lookup(rs, dst) ==
    LookupFrom(rs, 1, None, dst)

\* the gateway of App::new
Gateway == <<192, 0, 2, 1>>

\* the routes register_interface(&mut context, ..) adds for an interface
register_interface_routes(rs, ifc) ==
    Ipv4Router_register(rs, IpAnd(Iface(ifc).unicast, Iface(ifc).netmask), ifc)

\* the routes of App::new in the order it registers them
InitRegistered ==
    Append(register_interface_routes(register_interface_routes(<<>>, "lo"), "eth"),
           [network |-> IPV4_ANY, netmask |-> IPV4_ANY, interface |-> "eth",
            next_hop |-> <<Gateway>>])

\* the router after App::new
InitRoutes ==
    Ipv4Router_register_default(
        register_interface_routes(register_interface_routes(<<>>, "lo"), "eth"),
        "eth", Gateway)

----------------------------------------------------------------------------
(* The Internet checksum (src/utils.rs). *)

RECURSIVE WordSum(_, _)
\* the sum of the big-endian 16-bit words of h[i..], a final odd byte being
\* the high byte of a word whose low byte is the first zero of the padding
WordSum(h, i) ==
    IF i > Len(h) THEN 0
    ELSE IF i = Len(h) THEN h[i] * 256
    ELSE h[i] * 256 + h[i + 1] + WordSum(h, i + 2)

RECURSIVE Fold16(_)
\* while sum >> 16 != 0 { sum = (sum & 0xffff) + (sum >> 16) }
Fold16(sum) ==
    IF sum \div 65536 = 0 THEN sum
    ELSE Fold16((sum % 65536) + (sum \div 65536))

\* chunks(2) indexes x[1] of every chunk: an odd length aborts
ChecksumPanics(b) ==
    BLen(b) % 2 = 1

\* calculate_checksum(data, sum), for data of even length
calculate_checksum(b, seed) ==
    65535 - Fold16(seed + WordSum(b.head, 1))

----------------------------------------------------------------------------
(* ARP (src/protocols/arp.rs). *)

ARP_HARDWARE_TYPE_ETHERNET == 1
ARP_OPERATION_REQUEST == 1
ARP_OPERATION_REPLY == 2
ARP_CACHE_TIMEOUT == 600
MAC_ADDRESS_LEN == 6
ARP_PLEN_IPV4 == 4
ARP_HEADER_SIZE == 8
ARP_MESSAGE_SIZE == 28

\* the bytes data[from..from + n] as a sequence
Bytes(data, from, n) ==
    [i \in 1..n |-> BAt(data, from + i - 1)]

\* ArpHeader::to_bytes
ArpHeader_to_bytes(h) ==
    U16Bytes(h.htype) \o U16Bytes(h.ptype) \o <<h.hlen, h.plen>> \o U16Bytes(h.oper)

\* ArpHeader::from(&data[0..8])
ArpHeader_from(data) ==
    [htype |-> BE16(data, 0), ptype |-> BE16(data, 2), hlen |-> BAt(data, 4),
     plen |-> BAt(data, 5), oper |-> BE16(data, 6)]

\* ArpMessage::to_bytes
ArpMessage_to_bytes(m) ==
    Buf(ArpHeader_to_bytes(m.header) \o m.sha \o m.spa \o m.tha \o m.tpa, 0)

\* ArpMessage::from(data)
ArpMessage_from(data) ==
    [header |-> ArpHeader_from(data), sha |-> Bytes(data, 8, 6),
     spa |-> Bytes(data, 14, 4), tha |-> Bytes(data, 18, 6),
     tpa |-> Bytes(data, 24, 4)]

\* ArpCache::insert: the entry is replaced and its timestamp is the clock
ArpCache_insert(cache, ip, state, mac) ==
    [x \in (DOMAIN cache) \cup {ip} |->
        IF x = ip THEN [state |-> state, mac |-> mac, timestamp |-> now]
        ELSE cache[x]]

\* a get that still answers at the very age of the timeout
ArpCache_getAtTimeout(cache, ip) ==
    IF /\ ip \in DOMAIN cache
       /\ cache[ip].state = "Resolved"
       /\ now - cache[ip].timestamp <= ARP_CACHE_TIMEOUT
    THEN Some([state |-> cache[ip].state, mac |-> cache[ip].mac])
    ELSE None

\* ArpCache::get: Some(state) for a Resolved entry younger than the timeout
ArpCache_get(cache, ip) ==
    IF /\ ip \in DOMAIN cache
       /\ cache[ip].state = "Resolved"
       /\ now - cache[ip].timestamp < ARP_CACHE_TIMEOUT
    THEN Some([state |-> cache[ip].state, mac |-> cache[ip].mac])
    ELSE None

\* what a cache holds for ip, as an observer with the clock sees it
CacheView(cache, ip) ==
    IF ip \notin DOMAIN cache THEN "Absent"
    ELSE IF cache[ip].state = "Incomplete" THEN "Incomplete"
    ELSE IF now - cache[ip].timestamp < ARP_CACHE_TIMEOUT THEN "Resolved"
    ELSE "Expired"

\* send (arp.rs): build the message and hand it to the device
arp_send(w, d, ifc, oper, target_hw_addr, target) ==
    LET header == [htype |-> ARP_HARDWARE_TYPE_ETHERNET, ptype |-> ETHERTYPE_IPV4,
                   hlen |-> MAC_ADDRESS_LEN, plen |-> ARP_PLEN_IPV4, oper |-> oper]
        message == [header |-> header, sha |-> w.hwAddr[d],
                    spa |-> Iface(ifc).unicast, tha |-> target_hw_addr,
                    tpa |-> target]
    IN  NetDevice_send(w, d, ArpMessage_to_bytes(message), ETHERTYPE_ARP,
                       target_hw_addr)

\* request
arp_request(w, d, ifc, target) ==
    arp_send(w, d, ifc, ARP_OPERATION_REQUEST, MAC_ADDRESS_BROADCAST, target)

\* reply
arp_reply(w, d, ifc, target_hw_addr, target) ==
    arp_send(w, d, ifc, ARP_OPERATION_REPLY, target_hw_addr, target)

\* a handler aborts
Panic(w) ==
    Res([w EXCEPT !.panicked = TRUE], "Panic")

\* a recv that replies without learning the sender
arp_recvNoCacheInsert(w, ifc, data) ==
    IF BLen(data) < ARP_HEADER_SIZE THEN Panic(w)
    ELSE LET header == ArpHeader_from(data)
         IN  IF \/ header.htype # ARP_HARDWARE_TYPE_ETHERNET
                \/ header.ptype # ETHERTYPE_IPV4
                \/ header.hlen # MAC_ADDRESS_LEN
                \/ header.plen # ARP_PLEN_IPV4
             THEN Res(w, "UnsupportedArp")
             ELSE IF BLen(data) < ARP_MESSAGE_SIZE THEN Panic(w)
             ELSE LET arp == ArpMessage_from(data)
                  IN  IF Iface(ifc).unicast = arp.tpa
                      THEN arp_reply(w, Iface(ifc).device, ifc, arp.sha, arp.spa)
                      ELSE Res(w, "Ok")

\* a recv that does not look at the protocol address length
arp_recvAnyPlen(w, ifc, data) ==
    IF BLen(data) < ARP_HEADER_SIZE THEN Panic(w)
    ELSE LET header == ArpHeader_from(data)
         IN  IF \/ header.htype # ARP_HARDWARE_TYPE_ETHERNET
                \/ header.ptype # ETHERTYPE_IPV4
                \/ header.hlen # MAC_ADDRESS_LEN
             THEN Res(w, "UnsupportedArp")
             ELSE IF BLen(data) < ARP_MESSAGE_SIZE THEN Panic(w)
             ELSE LET arp == ArpMessage_from(data)
                  IN  IF Iface(ifc).unicast = arp.tpa
                      THEN LET w1 == [w EXCEPT !.arpCache =
                                        ArpCache_insert(@, arp.spa, "Resolved", arp.sha)]
                           IN  arp_reply(w1, Iface(ifc).device, ifc, arp.sha, arp.spa)
                      ELSE Res(w, "Ok")

\* recv (arp.rs)
arp_recv(w, ifc, data) ==
    IF BLen(data) < ARP_HEADER_SIZE THEN Panic(w)
    ELSE LET header == ArpHeader_from(data)
         IN  IF \/ header.htype # ARP_HARDWARE_TYPE_ETHERNET
                \/ header.ptype # ETHERTYPE_IPV4
                \/ header.hlen # MAC_ADDRESS_LEN
                \/ header.plen # ARP_PLEN_IPV4
             THEN Res(w, "UnsupportedArp")
             ELSE IF BLen(data) < ARP_MESSAGE_SIZE THEN Panic(w)
             ELSE LET arp == ArpMessage_from(data)
                  IN  IF Iface(ifc).unicast = arp.tpa
                      THEN LET w1 == [w EXCEPT !.arpCache =
                                        ArpCache_insert(@, arp.spa, "Resolved", arp.sha)]
                           IN  arp_reply(w1, Iface(ifc).device, ifc, arp.sha, arp.spa)
                      ELSE Res(w, "Ok")

\* the result of resolve_arp: the state, what it returns, and the cache
\* state (with its hardware address) on success
ResolveRes(w, ret, state, mac) ==
    [w |-> w, ret |-> ret, state |-> state, mac |-> mac]

\* the ghost record of one resolve_arp call
ResolveCall(w0, r, d, target) ==
    [dev |-> d, target |-> target, before |-> CacheView(w0.arpCache, target),
     entry |-> IF target \in DOMAIN w0.arpCache THEN Some(w0.arpCache[target])
               ELSE None,
     after |-> CacheView(r.w.arpCache, target),
     ret |-> r.ret, state |-> r.state, mac |-> r.mac,
     tx |-> SubSeq(r.w.tx, Len(w0.tx) + 1, Len(r.w.tx)),
     unchanged |-> r.w.arpCache = w0.arpCache]

\* the result of resolve_arp after its request was sent
resolve_arp_requested(r, state, mac) ==
    IF r.ret # "Ok" THEN ResolveRes(r.w, r.ret, "None", MAC_ADDRESS_ANY)
    ELSE ResolveRes(r.w, "Ok", state, mac)

\* resolve_arp with the cache's answer g: the let-else on None, the
\* Incomplete test, the state returned
\* a resolve that starts over on every call, whatever the cache holds
resolve_arp_foundRestart(w, g, d, ifc, target) ==
    resolve_arp_requested(
        arp_request([w EXCEPT !.arpCache =
                       ArpCache_insert(@, target, "Incomplete", MAC_ADDRESS_ANY)],
                    d, ifc, target),
        "Incomplete", MAC_ADDRESS_ANY)

resolve_arp_found(w, g, d, ifc, target) ==
    IF g = None
    THEN resolve_arp_requested(
             arp_request([w EXCEPT !.arpCache =
                            ArpCache_insert(@, target, "Incomplete", MAC_ADDRESS_ANY)],
                         d, ifc, target),
             "Incomplete", MAC_ADDRESS_ANY)
    ELSE IF g[1].state = "Incomplete"
    THEN resolve_arp_requested(arp_request(w, d, ifc, target), g[1].state, g[1].mac)
    ELSE ResolveRes(w, "Ok", g[1].state, g[1].mac)

\* a resolve that marks the target Incomplete without asking for it
resolve_arp_body_quiet(w, d, ifc, target) ==
    IF DevType(d) # "Ethernet" THEN ResolveRes(w, "UnsupportedDevice", "None", MAC_ADDRESS_ANY)
    ELSE IF ArpCache_get(w.arpCache, target) = None
    THEN ResolveRes([w EXCEPT !.arpCache =
                       ArpCache_insert(@, target, "Incomplete", MAC_ADDRESS_ANY)],
                    "Ok", "Incomplete", MAC_ADDRESS_ANY)
    ELSE resolve_arp_found(w, ArpCache_get(w.arpCache, target), d, ifc, target)

\* a resolve that re-inserts the entry it found
resolve_arp_body_refresh(w, d, ifc, target) ==
    IF DevType(d) # "Ethernet" THEN ResolveRes(w, "UnsupportedDevice", "None", MAC_ADDRESS_ANY)
    ELSE IF ArpCache_get(w.arpCache, target) = None
    THEN resolve_arp_found(w, None, d, ifc, target)
    ELSE resolve_arp_found(
             [w EXCEPT !.arpCache =
                ArpCache_insert(@, target, "Resolved",
                                ArpCache_get(w.arpCache, target)[1].mac)],
             ArpCache_get(w.arpCache, target), d, ifc, target)

\* resolve_arp, without the ghost record
resolve_arp_body(w, d, ifc, target) ==
    IF DevType(d) # "Ethernet" THEN ResolveRes(w, "UnsupportedDevice", "None", MAC_ADDRESS_ANY)
    ELSE resolve_arp_found(w, ArpCache_get(w.arpCache, target), d, ifc, target)

\* resolve_arp and the ghost record of the call
resolve_arp_logged(w, r, d, target) ==
    [r EXCEPT !.w.rlog = Append(@, ResolveCall(w, r, d, target))]

\* resolve_arp
resolve_arp(w, d, ifc, target) ==
    resolve_arp_logged(w, resolve_arp_body(w, d, ifc, target), d, target)

----------------------------------------------------------------------------
(* UDP receive and the bind table (src/transport/udp.rs). *)

IPPROTO_ICMP == 1
IPPROTO_UDP == 17
UDP_HEADER_SIZE == 8
UDP_PCB_LENGTH == 16

\* a binding rule that knows no unspecified address
can_be_boundExact(pcb, address, port) ==
    /\ pcb.state = "Open"
    /\ pcb.local.address = address
    /\ pcb.local.port = port

\* UdpPcb::can_be_bound
can_be_bound(pcb, address, port) ==
    /\ pcb.state = "Open"
    /\ (pcb.local.address = IPV4_ANY \/ address = IPV4_ANY
        \/ pcb.local.address = address)
    /\ pcb.local.port = port

\* UdpContext::select_pcb / select_pcb_mut: the index of the first occupied
\* slot that matches, or 0
select_pcb(ps, address, port) ==
    LET hits == {i \in 1..Len(ps) :
                    ps[i] # None /\ can_be_bound(ps[i][1], address, port)}
    IN  IF hits = {} THEN 0 ELSE CHOOSE i \in hits : \A j \in hits : i <= j

\* bind: the table after the call and the slot index returned (0-based), or
\* None
udp_bind(ps, endpoint) ==
    IF select_pcb(ps, endpoint.address, endpoint.port) # 0
    THEN [pcbs |-> ps, ret |-> None]
    ELSE LET free == {i \in 1..Len(ps) : ps[i] = None}
         IN  IF free = {} THEN [pcbs |-> ps, ret |-> None]
             ELSE LET i == CHOOSE i \in free : \A j \in free : i <= j
                  IN  [pcbs |-> [ps EXCEPT ![i] =
                                   Some([state |-> "Open", local |-> endpoint,
                                         queue |-> <<>>])],
                       ret |-> Some(i - 1)]

\* PseudoHeader::to_bytes
PseudoHeader_to_bytes(src, dst, protocol, length) ==
    Buf(src \o dst \o <<0, protocol>> \o U16Bytes(length), 0)

\* recv (udp.rs)
udp_recv(w, data, src, dst) ==
    IF BLen(data) < UDP_HEADER_SIZE THEN Res(w, "UdpTooShort")
    ELSE IF ChecksumPanics(data) THEN Panic(w)
    ELSE LET sum == calculate_checksum(data, 0)
             src_port == BE16(data, 0)
             dst_port == BE16(data, 2)
             length == BE16(data, 4)
             payload == BFrom(data, UDP_HEADER_SIZE)
         IN  IF BLen(data) # length THEN Res(w, "InvalidLength")
             ELSE IF calculate_checksum(
                        PseudoHeader_to_bytes(src, dst, IPPROTO_UDP, length),
                        BitNot16(sum)) # 0
             THEN Res(w, "InvalidChecksum")
             ELSE LET i == select_pcb(w.pcbs, dst, dst_port)
                  IN  IF i = 0 THEN Res(w, "NoSocket")
                      ELSE Res([w EXCEPT !.pcbs[i][1].queue =
                                  Append(@, [foreign |-> [address |-> dst,
                                                          port |-> src_port],
                                             data |-> payload])],
                               "Ok")

----------------------------------------------------------------------------
(* The IPv4 header, send and receive (src/protocols/ipv4.rs), and ICMP     *)
(* (src/transport/icmp.rs).                                                *)

IPV4_HEADER_MIN_LENGTH == 20
IPV4_HEADER_MAX_LENGTH == 60
IPV4_VERSION == 4
IPV4_TTL == 64
IPV4_VHL == 69
ICMP_ECHO_REPLY == 0
ICMP_ECHO == 8
ICMP_HEADER_SIZE == 8

\* Ipv4Header::to_bytes
Ipv4Header_to_bytes(h) ==
    <<h.vhl, h.tos>> \o U16Bytes(h.total_length) \o U16Bytes(h.identification)
    \o U16Bytes(h.ffo) \o <<h.ttl, h.protocol>> \o U16Bytes(h.header_checksum)
    \o h.src \o h.dst

\* a parse that reads total_length low byte first
Ipv4Header_fromLittleEndian(data) ==
    [vhl |-> BAt(data, 0), tos |-> BAt(data, 1),
     total_length |-> BAt(data, 3) * 256 + BAt(data, 2),
     identification |-> BE16(data, 4), ffo |-> BE16(data, 6),
     ttl |-> BAt(data, 8), protocol |-> BAt(data, 9),
     header_checksum |-> BE16(data, 10), src |-> Bytes(data, 12, 4),
     dst |-> Bytes(data, 16, 4)]

\* the fields Ipv4Header::try_from reads
Ipv4Header_from(data) ==
    [vhl |-> BAt(data, 0), tos |-> BAt(data, 1), total_length |-> BE16(data, 2),
     identification |-> BE16(data, 4), ffo |-> BE16(data, 6),
     ttl |-> BAt(data, 8), protocol |-> BAt(data, 9),
     header_checksum |-> BE16(data, 10), src |-> Bytes(data, 12, 4),
     dst |-> Bytes(data, 16, 4)]

\* Ipv4Header::try_from: value[9] is read first and its protocol number
\* converted, then the other bytes up to value[19]
Ipv4Header_try_from(data) ==
    IF BLen(data) <= 9 THEN "Panic"
    ELSE IF BAt(data, 9) \notin {IPPROTO_ICMP, IPPROTO_UDP} THEN "UnknownProtocol"
    ELSE IF BLen(data) < IPV4_HEADER_MIN_LENGTH THEN "Panic"
    ELSE "Ok"

\* Ipv4Header::header_length
header_length(h) ==
    (h.vhl % 16) * 4

\* a validate that lets fragments through
Ipv4Header_validateFragments(h) ==
    IF h.vhl \div 16 # IPV4_VERSION THEN "InvalidVersion"
    ELSE IF header_length(h) < IPV4_HEADER_MIN_LENGTH THEN "HeaderTooShort"
    ELSE IF ~(header_length(h) < IPV4_HEADER_MAX_LENGTH) THEN "HeaderTooLong"
    ELSE IF calculate_checksum(Buf(Ipv4Header_to_bytes(h), 0), 0) # 0
    THEN "HeaderChecksum"
    ELSE "Ok"

\* Ipv4Header::validate
Ipv4Header_validate(h) ==
    IF h.vhl \div 16 # IPV4_VERSION THEN "InvalidVersion"
    ELSE IF header_length(h) < IPV4_HEADER_MIN_LENGTH THEN "HeaderTooShort"
    ELSE IF ~(header_length(h) < IPV4_HEADER_MAX_LENGTH) THEN "HeaderTooLong"
    ELSE IF (h.ffo \div 8192) % 2 > 0 \/ h.ffo % 8192 > 0 THEN "Fragmented"
    ELSE IF calculate_checksum(Buf(Ipv4Header_to_bytes(h), 0), 0) # 0
    THEN "HeaderChecksum"
    ELSE "Ok"

\* create_ip_header: total_length is IPV4_HEADER_MIN_LENGTH as u16 +
\* data.len() as u16 (wrapping, as a release build computes it)
create_ip_header(id, protocol, src, dst, data) ==
    LET h0 == [vhl |-> IPV4_VHL, tos |-> 0,
               total_length |-> (IPV4_HEADER_MIN_LENGTH + (BLen(data) % 65536)) % 65536,
               identification |-> id, ffo |-> 0, ttl |-> IPV4_TTL,
               protocol |-> protocol, header_checksum |-> 0, src |-> src,
               dst |-> dst]
        checksum == calculate_checksum(Buf(Ipv4Header_to_bytes(h0), 0), 0)
    IN  Buf(Ipv4Header_to_bytes([h0 EXCEPT !.header_checksum = checksum]), 0)

\* the ghost record of one ipv4 send call
SendCall(w0, r, protocol, data, src, dst) ==
    [protocol |-> protocol, len |-> BLen(data), data |-> data, src |-> src,
     dst |-> dst, ret |-> r.ret, idBefore |-> w0.idNext, idAfter |-> r.w.idNext,
     tx |-> SubSeq(r.w.tx, Len(w0.tx) + 1, Len(r.w.tx)),
     rlog |-> SubSeq(r.w.rlog, Len(w0.rlog) + 1, Len(r.w.rlog)),
     cacheUnchanged |-> r.w.arpCache = w0.arpCache]

\* a next hop that ignores the route's gateway
NextHopDstOnly(route, dst) ==
    dst

\* the next hop the ARP resolution is asked for: route.next_hop, or dst
NextHop(route, dst) ==
    IF route.next_hop # None THEN route.next_hop[1] ELSE dst

\* the hardware address a packet goes to after the resolution r
ResolvedHw(r) ==
    IF r.state = "Resolved" THEN r.mac ELSE MAC_ADDRESS_BROADCAST

\* a step after the resolution that sends whatever the resolution said
ipv4_send_resolved_or_broadcast(r, d, output_data) ==
    IF r.ret # "Ok" THEN Res(r.w, r.ret)
    ELSE NetDevice_send(r.w, d, output_data, ETHERTYPE_IPV4, ResolvedHw(r))

\* send (ipv4.rs) after resolve_arp returned r: the error, the silent drop
\* on a state other than Resolved, or the device send
ipv4_send_resolved(r, d, output_data) ==
    IF r.ret # "Ok" THEN Res(r.w, r.ret)
    ELSE IF r.state # "Resolved" THEN Res(r.w, "Ok")
    ELSE NetDevice_send(r.w, d, output_data, ETHERTYPE_IPV4, r.mac)

\* a link step that sends the packet to the link broadcast address when the
\* resolution is Incomplete
ipv4_send_linkBroadcastOnMiss(w, route, output_data, dst) ==
    IF /\ need_arp(w.flags[Iface(route.interface).device])
       /\ dst # Iface(route.interface).broadcast
       /\ dst # IPV4_BROADCAST
    THEN ipv4_send_resolved_or_broadcast(
             resolve_arp(w, Iface(route.interface).device, route.interface,
                         NextHop(route, dst)),
             Iface(route.interface).device, output_data)
    ELSE NetDevice_send(w, Iface(route.interface).device, output_data,
                        ETHERTYPE_IPV4, MAC_ADDRESS_BROADCAST)

\* a link step that asks ARP for the broadcast address of the interface
ipv4_send_linkArpForBroadcast(w, route, output_data, dst) ==
    IF /\ need_arp(w.flags[Iface(route.interface).device])
       /\ dst # IPV4_BROADCAST
    THEN ipv4_send_resolved(
             resolve_arp(w, Iface(route.interface).device, route.interface,
                         NextHop(route, dst)),
             Iface(route.interface).device, output_data)
    ELSE NetDevice_send(w, Iface(route.interface).device, output_data,
                        ETHERTYPE_IPV4, MAC_ADDRESS_BROADCAST)

\* send (ipv4.rs), from the header build on: the link destination and the
\* device send
ipv4_send_link(w, route, output_data, dst) ==
    IF /\ need_arp(w.flags[Iface(route.interface).device])
       /\ dst # Iface(route.interface).broadcast
       /\ dst # IPV4_BROADCAST
    THEN ipv4_send_resolved(
             resolve_arp(w, Iface(route.interface).device, route.interface,
                         NextHop(route, dst)),
             Iface(route.interface).device, output_data)
    ELSE NetDevice_send(w, Iface(route.interface).device, output_data,
                        ETHERTYPE_IPV4, MAC_ADDRESS_BROADCAST)

\* a send that draws the identification before its checks
ipv4_send_routedIdFirst(w, route, protocol, data, src, dst) ==
    IF ~(src # IPV4_ANY \/ dst # IPV4_BROADCAST)
    THEN Res([w EXCEPT !.idNext = (@ + 1) % 65536], "InvalidSource")
    ELSE IF ~(src = IPV4_ANY \/ src = Iface(route.interface).unicast)
    THEN Res([w EXCEPT !.idNext = (@ + 1) % 65536], "InvalidSource")
    ELSE IF ~(BLen(data) < Mtu(Iface(route.interface).device))
    THEN Res([w EXCEPT !.idNext = (@ + 1) % 65536], "PacketTooLong")
    ELSE ipv4_send_link(
             [w EXCEPT !.idNext = (@ + 1) % 65536], route,
             BConcat(create_ip_header(w.idNext, protocol,
                                      Iface(route.interface).unicast, dst, data),
                     data),
             dst)

\* a send that lets a payload as long as the MTU through
ipv4_send_routedLenInclusive(w, route, protocol, data, src, dst) ==
    IF ~(src # IPV4_ANY \/ dst # IPV4_BROADCAST) THEN Res(w, "InvalidSource")
    ELSE IF ~(src = IPV4_ANY \/ src = Iface(route.interface).unicast)
    THEN Res(w, "InvalidSource")
    ELSE IF ~(BLen(data) <= Mtu(Iface(route.interface).device))
    THEN Res(w, "PacketTooLong")
    ELSE ipv4_send_link(
             [w EXCEPT !.idNext = (@ + 1) % 65536], route,
             BConcat(create_ip_header(w.idNext, protocol,
                                      Iface(route.interface).unicast, dst, data),
                     data),
             dst)

\* send (ipv4.rs) with the route found: the source and length checks, the
\* identification, the header, the link step
ipv4_send_routed(w, route, protocol, data, src, dst) ==
    IF ~(src # IPV4_ANY \/ dst # IPV4_BROADCAST) THEN Res(w, "InvalidSource")
    ELSE IF ~(src = IPV4_ANY \/ src = Iface(route.interface).unicast)
    THEN Res(w, "InvalidSource")
    ELSE IF ~(BLen(data) < Mtu(Iface(route.interface).device))
    THEN Res(w, "PacketTooLong")
    ELSE ipv4_send_link(
             [w EXCEPT !.idNext = (@ + 1) % 65536], route,
             BConcat(create_ip_header(w.idNext, protocol,
                                      Iface(route.interface).unicast, dst, data),
                     data),
             dst)

\* interface.device.upgrade() returns the device: App keeps the devices of
\* its interfaces in its list; the device of a test interface is a
\* temporary that is dropped when Ipv4Interface::new returns
Upgrades(ifc) ==
    ifc \in {"lo", "eth"}

\* send (ipv4.rs), from the route lookup on: interface.device is always
\* Some, and the unwrap of upgrade() panics when the device is gone
ipv4_send_looked_up(w, lk, protocol, data, src, dst) ==
    IF lk = None THEN Res(w, "NoRoute")
    ELSE IF ~Upgrades(lk[1].interface) THEN Panic(w)
    ELSE ipv4_send_routed(w, lk[1], protocol, data, src, dst)

\* send (ipv4.rs), without the ghost record
ipv4_send_body(w, protocol, data, src, dst) ==
    ipv4_send_looked_up(w, Ipv4Router_lookup(routes, dst), protocol, data, src, dst)

\* send (ipv4.rs) and the ghost record of the call
ipv4_send_logged(w, r, protocol, data, src, dst) ==
    [r EXCEPT !.w.slog = Append(@, SendCall(w, r, protocol, data, src, dst))]

\* send (ipv4.rs)
ipv4_send(w, protocol, data, src, dst) ==
    ipv4_send_logged(w, ipv4_send_body(w, protocol, data, src, dst),
                     protocol, data, src, dst)

\* the longest payload of an IPv4 packet; udp.rs imports the constant from
\* ipv4.rs
IPV4_PAYLOAD_MAX_LENGTH == 65515

\* UdpHeader::to_bytes followed by the payload
UdpMessage(src_port, dst_port, length, checksum, data) ==
    BConcat(Buf(U16Bytes(src_port) \o U16Bytes(dst_port) \o U16Bytes(length)
                \o U16Bytes(checksum), 0), data)

\* send (udp.rs): the checksum of the datagram, seeded with the complement
\* of the checksum of the pseudo header of the two endpoint addresses
udp_checksum(data, src, dst, length) ==
    calculate_checksum(
        UdpMessage(src.port, dst.port, length, 0, data),
        BitNot16(calculate_checksum(
            PseudoHeader_to_bytes(src.address, dst.address, IPPROTO_UDP, length),
            0)))

\* send (udp.rs)
udp_send(w, data, src, dst) ==
    IF BLen(data) > IPV4_PAYLOAD_MAX_LENGTH - UDP_HEADER_SIZE
    THEN Res(w, "UdpTooLong")
    ELSE IF ChecksumPanics(UdpMessage(src.port, dst.port, 0, 0, data))
    THEN Panic(w)
    ELSE ipv4_send(w, IPPROTO_UDP,
                   UdpMessage(src.port, dst.port,
                              (UDP_HEADER_SIZE + BLen(data)) % 65536,
                              udp_checksum(data, src, dst,
                                           (UDP_HEADER_SIZE + BLen(data)) % 65536),
                              data),
                   src.address, dst.address)

\* IcmpHeader::to_bytes followed by the payload
IcmpMessage(ty, code, checksum, values, data) ==
    BConcat(Buf(<<ty, code>> \o U16Bytes(checksum) \o values, 0), data)

\* output (icmp.rs)
icmp_output(w, ty, code, values, data, src, dst) ==
    LET buffer0 == IcmpMessage(ty, code, 0, values, data)
    IN  IF ChecksumPanics(buffer0) THEN Panic(w)
        ELSE ipv4_send(w, IPPROTO_ICMP,
                       IcmpMessage(ty, code, calculate_checksum(buffer0, 0), values, data),
                       src, dst)

\* handle_input (icmp.rs): IcmpHeader::try_from reads data[0], converts the
\* type, then reads data[1..8]
icmp_handle_input(w, ifc, data, src, dst) ==
    IF BLen(data) = 0 THEN Panic(w)
    ELSE IF BAt(data, 0) \notin {ICMP_ECHO_REPLY, ICMP_ECHO} THEN Res(w, "UnknownIcmpType")
    ELSE IF BLen(data) < ICMP_HEADER_SIZE THEN Panic(w)
    ELSE IF BAt(data, 0) = ICMP_ECHO
    THEN icmp_output(w, ICMP_ECHO_REPLY, BAt(data, 1), Bytes(data, 4, 4),
                     BFrom(data, ICMP_HEADER_SIZE), dst, src)
    ELSE Res(w, "Ok")

\* the UDP arm of the demultiplexing in recv (ipv4.rs)
ipv4_demux_udp(w, payload, src, dst) ==
    udp_recv(w, payload, src, dst)

\* the demultiplexing of recv (ipv4.rs) by header.protocol
ipv4_demux(w, ifc, protocol, payload, src, dst) ==
    IF protocol = IPPROTO_ICMP
    THEN icmp_handle_input([w EXCEPT !.hlog = Append(@, "icmp")], ifc, payload,
                           src, dst)
    ELSE ipv4_demux_udp([w EXCEPT !.hlog = Append(@, "udp")], payload, src, dst)

\* a recv that accepts a packet whatever its destination
ipv4_recvPromiscuous(w, ifc, data) ==
    LET p == Ipv4Header_try_from(data)
    IN  IF p = "Panic" THEN Panic(w)
        ELSE IF p # "Ok" THEN Res(w, p)
        ELSE LET header == Ipv4Header_from(data)
                 v == Ipv4Header_validate(header)
             IN  IF v # "Ok" THEN Res(w, v)
                 ELSE IF header_length(header) > BLen(data) THEN Panic(w)
                 ELSE ipv4_demux(w, ifc, header.protocol,
                                 BFrom(data, header_length(header)),
                                 header.src, header.dst)

\* recv (ipv4.rs)
ipv4_recv(w, ifc, data) ==
    LET p == Ipv4Header_try_from(data)
    IN  IF p = "Panic" THEN Panic(w)
        ELSE IF p # "Ok" THEN Res(w, p)
        ELSE LET header == Ipv4Header_from(data)
                 v == Ipv4Header_validate(header)
             IN  IF v # "Ok" THEN Res(w, v)
                 ELSE IF /\ header.dst # Iface(ifc).unicast
                         /\ header.dst # Iface(ifc).broadcast
                         /\ header.dst # IPV4_BROADCAST
                 THEN Res(w, "Ok")
                 ELSE IF header_length(header) > BLen(data) THEN Panic(w)
                 ELSE ipv4_demux(w, ifc, header.protocol,
                                 BFrom(data, header_length(header)),
                                 header.src, header.dst)

----------------------------------------------------------------------------
(* The program state as one record, and its commit to the variables. *)

World ==
    [flags |-> flags, driver |-> driver, hwAddr |-> hwAddr,
     loQueue |-> loQueue, tapRx |-> tapRx, protoQueue |-> protoQueue,
     arpCache |-> arpCache, idNext |-> idNext, irq |-> irq,
     panicked |-> panicked, enqLog |-> enqLog, deqLog |-> deqLog,
     pcbs |-> pcbs, tx |-> <<>>, rlog |-> <<>>, slog |-> <<>>, elog |-> <<>>,
     errs |-> <<>>, hlog |-> <<>>, ev |-> <<>>]

\* the errors send (ipv4.rs) returns before it draws an identification
PreBuildErrors ==
    {"NoRoute", "InvalidSource", "PacketTooLong"}

\* the calls of send recorded in slog that were not turned away by a check
\* and did not abort on a device that is gone
BuiltIn(slog) ==
    Cardinality({k \in 1..Len(slog) :
                    slog[k].ret \notin PreBuildErrors \cup {"Panic"}})

Store(w) ==
    /\ flags' = w.flags
    /\ driver' = w.driver
    /\ hwAddr' = w.hwAddr
    /\ loQueue' = w.loQueue
    /\ tapRx' = w.tapRx
    /\ protoQueue' = w.protoQueue
    /\ arpCache' = w.arpCache
    /\ idNext' = w.idNext
    /\ nBuilt' = nBuilt + BuiltIn(w.slog)
    /\ irq' = w.irq
    /\ panicked' = w.panicked
    /\ enqLog' = w.enqLog
    /\ deqLog' = w.deqLog
    /\ pcbs' = w.pcbs

\* a handler or a call that leaves the threads where they stand
Commit(w) ==
    /\ Store(w)
    /\ UNCHANGED threads

\* the record of an operation: what was called, on what, with what, what it
\* returned and which driver transmits it made
Op(name, d, arg, r) ==
    [op |-> name, dev |-> d, arg |-> arg, ret |-> r.ret, tx |-> r.w.tx,
     rlog |-> r.w.rlog, slog |-> r.w.slog, elog |-> r.w.elog,
     errs |-> r.w.errs, ev |-> r.w.ev]

NoOp ==
    [op |-> "none", dev |-> "none", arg |-> <<>>, ret |-> "Ok", tx |-> <<>>,
     rlog |-> <<>>, slog |-> <<>>, elog |-> <<>>,
     errs |-> <<>>, ev |-> <<>>]

\* the mutexes: the devices list, each device, the protocols list, each
\* protocol queue, the context, the PCB table and the loopback FIFO
Mutexes ==
    {"devices", "lo", "eth", "protocols", "ipv4", "arp", "context", "pcbs", "fifo"}

\* main and the app thread once both have passed the barrier: main enters
\* its signal loop, the app thread is about to bind, the channel between
\* them is empty and stop_net has closed no device; no mutex is held and
\* neither thread is inside a call that locks
Started ==
    [main |-> "loop", app |-> "bind", chan |-> 0, closed |-> <<>>,
     held |-> [m \in Mutexes |-> "free"],
     todo |-> [t \in {"main", "app"} |-> <<>>]]

\* the devices as constructed, before run_net
InitDevices ==
    /\ flags = [d \in AllDev |-> InitFlags(d)]
    /\ driver = [d \in AllDev |-> "None"]
    /\ hwAddr = [d \in AllDev |-> MAC_ADDRESS_ANY]
    /\ loQueue = <<>>

InitRest ==
    /\ tapRx = <<>>
    /\ protoQueue = [t \in {ETHERTYPE_IPV4, ETHERTYPE_ARP} |-> <<>>]
    /\ arpCache = <<>>
    /\ idNext = 0
    /\ nBuilt = 0
    /\ irq = [s \in {INTR_IRQ_LOOPBACK, INTR_IRQ_ETHERNET_TAP, INTR_IRQ_L3} |-> 0]
    /\ now = 0
    /\ panicked = FALSE
    /\ nArrived = 0
    /\ nCalls = 0
    /\ enqLog = [t \in {ETHERTYPE_IPV4, ETHERTYPE_ARP} |-> <<>>]
    /\ deqLog = [t \in {ETHERTYPE_IPV4, ETHERTYPE_ARP} |-> <<>>]
    /\ routes = InitRoutes
    /\ regLog = InitRegistered
    /\ pcbs = [i \in 1..UDP_PCB_LENGTH |-> None]
    /\ threads = Started
    /\ last = NoOp

----------------------------------------------------------------------------
(* Receive: the drivers' reads, the device handler, the protocol queues    *)
(* and the two IRQ handlers (src/driver/tap.rs, src/devices/ethernet.rs,   *)
(* src/devices/loopback.rs, src/devices.rs, src/protocols.rs, src/app.rs). *)

Protocols == <<ETHERTYPE_IPV4, ETHERTYPE_ARP>>

\* error!(...): the handler logs the error and goes on
LogErr(w, e) ==
    [w EXCEPT !.errs = Append(@, e)]

\* tap::read: the frame lands in a zeroed buffer of ETHERNET_FRAME_MAX_SIZE
\* bytes and the whole buffer is returned
tap_read(frame) ==
    IF BLen(frame) >= ETHERNET_FRAME_MAX_SIZE
    THEN BSlice(frame, 0, ETHERNET_FRAME_MAX_SIZE)
    ELSE BConcat(frame, Buf(<<>>, ETHERNET_FRAME_MAX_SIZE - BLen(frame)))

\* the result of a device recv: the state, Ok or the error, the protocol
\* type and the payload
RecvRes(w, ret, ty, payload) ==
    [w |-> w, ret |-> ret, ty |-> ty, payload |-> payload]

\* an ethernet::recv that takes a frame whatever its destination address
ethernet_recvPromiscuous(w, d) ==
    IF w.tapRx = <<>> THEN RecvRes(w, "ReadError", 0, Buf(<<>>, 0))
    ELSE LET data == tap_read(Head(w.tapRx))
             w1 == [w EXCEPT !.tapRx = Tail(@)]
         IN  IF BLen(data) < ETHERNET_HEADER_SIZE
             THEN RecvRes([w1 EXCEPT !.panicked = TRUE], "Panic", 0, Buf(<<>>, 0))
             ELSE IF BE16(data, 12) \notin {ETHERTYPE_IPV4, ETHERTYPE_ARP}
             THEN RecvRes(w1, "UnknownEtherType", 0, Buf(<<>>, 0))
             ELSE RecvRes(w1, "Ok", BE16(data, 12), BFrom(data, ETHERNET_HEADER_SIZE))

\* ethernet::recv
ethernet_recv(w, d) ==
    IF w.tapRx = <<>> THEN RecvRes(w, "ReadError", 0, Buf(<<>>, 0))
    ELSE LET data == tap_read(Head(w.tapRx))
             w1 == [w EXCEPT !.tapRx = Tail(@)]
         IN  IF BLen(data) < ETHERNET_HEADER_SIZE
             THEN RecvRes([w1 EXCEPT !.panicked = TRUE], "Panic", 0, Buf(<<>>, 0))
             ELSE LET dst == Bytes(data, 0, MAC_ADDRESS_LEN)
                      ty == BE16(data, 12)
                  IN  IF dst # w1.hwAddr[d] /\ dst # MAC_ADDRESS_BROADCAST
                      THEN RecvRes(w1, "NotForMe", 0, Buf(<<>>, 0))
                      ELSE IF ty \notin {ETHERTYPE_IPV4, ETHERTYPE_ARP}
                      THEN RecvRes(w1, "UnknownEtherType", 0, Buf(<<>>, 0))
                      ELSE RecvRes(w1, "Ok", ty, BFrom(data, ETHERNET_HEADER_SIZE))

\* loopback::recv
loopback_recv(w, d) ==
    IF w.loQueue = <<>> THEN RecvRes(w, "QueueEmpty", 0, Buf(<<>>, 0))
    ELSE RecvRes([w EXCEPT !.loQueue = Tail(@)], "Ok", ETHERTYPE_IPV4,
                 Head(w.loQueue))

\* the tag of the next entry pushed on a protocol queue
NextSeq(w) ==
    Len(w.enqLog[ETHERTYPE_IPV4]) + Len(w.enqLog[ETHERTYPE_ARP]) + 1

\* a handle_isr that pushes the entry and raises no signal
handle_isr_receivedSilent(r, d) ==
    IF r.ret # "Ok" THEN Res(r.w, r.ret)
    ELSE IF get_interface(d, "Ipv4") = "None" THEN Res(r.w, "NoInterface")
    ELSE Res([r.w EXCEPT
                !.protoQueue[r.ty] =
                    Append(@, [data |-> r.payload,
                               interface |-> get_interface(d, "Ipv4"),
                               seq |-> NextSeq(r.w)]),
                !.enqLog[r.ty] = Append(@, NextSeq(r.w)),
                !.ev = Append(@, Event("push", r.ty))],
             "Ok")

\* a handle_isr that raises the L3 signal as soon as the device recv
\* returned, before it looks for the interface and pushes the entry
handle_isr_receivedRaiseFirst(r, d) ==
    IF r.ret # "Ok" THEN Res(r.w, r.ret)
    ELSE IF get_interface(d, "Ipv4") = "None"
    THEN Res(Raise(r.w, INTR_IRQ_L3), "NoInterface")
    ELSE Res([Raise(r.w, INTR_IRQ_L3) EXCEPT
                !.protoQueue[r.ty] =
                    Append(@, [data |-> r.payload,
                               interface |-> get_interface(d, "Ipv4"),
                               seq |-> NextSeq(r.w)]),
                !.enqLog[r.ty] = Append(@, NextSeq(r.w)),
                !.ev = Append(@, Event("push", r.ty))],
             "Ok")

\* NetDevice::handle_isr after the device recv returned r and
\* get_interface returned ifc: the push on the protocol queue, the L3 signal
handle_isr_pushed(r, d, ifc) ==
    IF r.ret # "Ok" THEN Res(r.w, r.ret)
    ELSE IF ifc = "None" THEN Res(r.w, "NoInterface")
    ELSE Res(Raise([r.w EXCEPT
                      !.protoQueue[r.ty] =
                          Append(@, [data |-> r.payload,
                                     interface |-> ifc,
                                     seq |-> NextSeq(r.w)]),
                      !.enqLog[r.ty] = Append(@, NextSeq(r.w)),
                      !.ev = Append(@, Event("push", r.ty))],
                   INTR_IRQ_L3),
             "Ok")

\* NetDevice::handle_isr after the device recv returned r: the interface
\* lookup, the push on the protocol queue, the L3 signal
handle_isr_received(r, d) ==
    handle_isr_pushed(r, d, get_interface(d, "Ipv4"))

\* NetDevice::handle_isr
handle_isr(w, d) ==
    IF DevType(d) = "Null" THEN Res(w, "Ok")
    ELSE IF DevType(d) = "Loopback" THEN handle_isr_received(loopback_recv(w, d), d)
    ELSE handle_isr_received(ethernet_recv(w, d), d)

\* App::handle_irq_l2 after the device handler returned r: an error is
\* logged
handle_irq_l2_handled(r) ==
    IF r.ret = "Panic" THEN r
    ELSE IF r.ret # "Ok" THEN Res(LogErr(r.w, r.ret), "Ok")
    ELSE r

\* the devices bound to the signal sig, as indexes in the device list
DevicesOf(sig) ==
    {i \in 1..Len(Devices) : DevIrq(Devices[i]) = sig}

\* App::handle_irq_l2: the first device bound to the signal runs its
\* handler
handle_irq_l2(w, sig) ==
    IF DevicesOf(sig) = {} THEN Res(w, "Ok")
    ELSE handle_irq_l2_handled(
             handle_isr(w, Devices[CHOOSE i \in DevicesOf(sig) :
                                      \A j \in DevicesOf(sig) : i <= j]))

\* the protocol handler an entry of the queue of type ty is handed to
proto_recv(w, ty, entry) ==
    IF ty = ETHERTYPE_IPV4 THEN ipv4_recv(w, entry.interface, entry.data)
    ELSE arp_recv(w, entry.interface, entry.data)

\* the ghost record of one popped entry and what its handler did
recv_entry_logged(w, entry, ty, r) ==
    [r EXCEPT !.w.elog =
        Append(@, [ty |-> ty, seq |-> entry.seq, ret |-> r.ret,
                   interface |-> entry.interface, data |-> entry.data,
                   tx |-> SubSeq(r.w.tx, Len(w.tx) + 1, Len(r.w.tx)),
                   cacheAfter |-> r.w.arpCache, cacheBefore |-> w.arpCache,
                   idBefore |-> w.idNext, idAfter |-> r.w.idNext,
                   pcbsBefore |-> w.pcbs, pcbsAfter |-> r.w.pcbs,
                   handlers |-> SubSeq(r.w.hlog, Len(w.hlog) + 1, Len(r.w.hlog)),
                   sends |-> SubSeq(r.w.slog, Len(w.slog) + 1, Len(r.w.slog))])]

\* the entry popped: the dequeue and the protocol handler
recv_entry_popped(w, entry, ty) ==
    recv_entry_logged(w, entry, ty,
        proto_recv([w EXCEPT !.protoQueue[ty] = Tail(@),
                             !.deqLog[ty] = Append(@, entry.seq)],
                   ty, entry))

\* a turn that leaves an entry its handler refuses at the front of the queue
recv_entryKeepRefused(w, ty) ==
    LET r == recv_entry_popped(w, Head(w.protoQueue[ty]), ty)
    IN  IF r.ret \in {"Ok", "Panic"} THEN r
        ELSE [r EXCEPT !.w.protoQueue[ty] = <<Head(w.protoQueue[ty])>> \o @]

\* one turn of the loop of NetProtocol::recv: pop_front and the handler
recv_entry(w, ty) ==
    recv_entry_popped(w, Head(w.protoQueue[ty]), ty)

\* the queue with its newest entry moved to the front
NewestFirst(q) ==
    <<q[Len(q)]>> \o SubSeq(q, 1, Len(q) - 1)

RECURSIVE NetProtocol_recvLifo(_, _)
\* the loop after one entry of the newest-first variant
NetProtocol_recvLifo_next(r, ty) ==
    IF r.ret # "Ok" THEN r ELSE NetProtocol_recvLifo(r.w, ty)

\* a receive loop that takes the newest entry first
NetProtocol_recvLifo(w, ty) ==
    IF w.protoQueue[ty] = <<>> THEN Res(w, "Ok")
    ELSE NetProtocol_recvLifo_next(
             recv_entry([w EXCEPT !.protoQueue[ty] = NewestFirst(@)], ty), ty)

RECURSIVE NetProtocol_recv(_, _)
\* NetProtocol::recv after one entry: the first handler error leaves the
\* loop and is returned
NetProtocol_recv_next(r, ty) ==
    IF r.ret # "Ok" THEN r ELSE NetProtocol_recv(r.w, ty)

\* NetProtocol::recv: pop entries from the front while there are any
NetProtocol_recv(w, ty) ==
    IF w.protoQueue[ty] = <<>> THEN Res(w, "Ok")
    ELSE NetProtocol_recv_next(recv_entry(w, ty), ty)

RECURSIVE handle_irq_l3_from(_, _)
\* App::handle_irq_l3 after one protocol's recv returned r: an error is
\* logged, the next protocol follows
handle_irq_l3_next(r, i) ==
    IF r.ret = "Panic" THEN r
    ELSE IF r.ret # "Ok" THEN handle_irq_l3_from(LogErr(r.w, r.ret), i + 1)
    ELSE handle_irq_l3_from(r.w, i + 1)

\* App::handle_irq_l3: every protocol in list order, from the i-th on
handle_irq_l3_from(w, i) ==
    IF i > Len(Protocols) THEN Res(w, "Ok")
    ELSE handle_irq_l3_next(NetProtocol_recv(w, Protocols[i]), i)

\* App::handle_irq_l3
handle_irq_l3(w) ==
    handle_irq_l3_from(w, 1)

----------------------------------------------------------------------------
(* The device-level specification: any sequence of open, close and send   *)
(* calls on the three kinds of device, starting from the constructors.    *)

\* payload lengths a test hands to NetDevice::send, around the MTU
SendLens(d) ==
    {1, Mtu(d) - 1, Mtu(d), Mtu(d) + 1}

InitDev ==
    InitDevices /\ InitRest

DevOpen(d, ok) ==
    LET r == NetDevice_open(World, d, ok)
    IN  /\ Commit(r.w)
        /\ last' = Op("open", d, <<ok>>, r)
        /\ UNCHANGED <<now, nArrived, nCalls, routes, regLog>>

DevClose(d) ==
    LET r == NetDevice_close(World, d)
    IN  /\ Commit(r.w)
        /\ last' = Op("close", d, <<>>, r)
        /\ UNCHANGED <<now, nArrived, nCalls, routes, regLog>>

DevSend(d, len, ty) ==
    LET r == NetDevice_send(World, d, Buf(<<>>, len), ty, MAC_ADDRESS_BROADCAST)
    IN  /\ Len(loQueue) < MaxLoQueue
        /\ Commit(r.w)
        /\ last' = Op("send", d, <<len, ty>>, r)
        /\ UNCHANGED <<now, nArrived, nCalls, routes, regLog>>

NextDev ==
    \/ \E d \in AllDev, ok \in BOOLEAN : DevOpen(d, ok)
    \/ \E d \in AllDev : DevClose(d)
    \/ \E d \in AllDev : \E len \in SendLens(d) :
          \E ty \in {ETHERTYPE_IPV4, ETHERTYPE_ARP} : DevSend(d, len, ty)

SpecDev ==
    InitDev /\ [][NextDev]_vars

\* devices a list holds at most
MaxDevices == 3

\* no device stands twice in the list
NoRepeat(devices) ==
    \A i, j \in 1..Len(devices) : devices[i] = devices[j] => i = j

\* the lists of devices a caller hands to run_net and stop_net: every
\* push_back adds a device of its own
DeviceLists ==
    {devices \in UNION {[1..n -> AllDev] : n \in 0..MaxDevices} :
        NoRepeat(devices)}

\* a caller of run_net with a list of devices that are all DOWN
RunNet(devices) ==
    LET r == run_net(World, devices)
    IN  /\ \A i \in 1..Len(devices) : ~is_up(flags[devices[i]])
        /\ Commit(r.w)
        /\ last' = [Op("run_net", "none", <<devices, flags>>, Res(r.w, r.ret))
                      EXCEPT !.ret = [result |-> r.ret, order |-> r.opened]]
        /\ UNCHANGED <<now, nArrived, nCalls, routes, regLog>>

\* the same caller goes on with stop_net on the same list
StopNet ==
    LET r == stop_net(World, last.arg[1])
    IN  /\ last.op = "run_net"
        /\ Commit(r.w)
        /\ last' = [Op("stop_net", "none", last.arg, Res(r.w, r.ret))
                      EXCEPT !.ret = [result |-> r.ret, order |-> r.closed]]
        /\ UNCHANGED <<now, nArrived, nCalls, routes, regLog>>

NextNet ==
    \/ \E d \in AllDev, ok \in BOOLEAN : DevOpen(d, ok)
    \/ \E d \in AllDev : DevClose(d)
    \/ \E devices \in DeviceLists : RunNet(devices)
    \/ StopNet

SpecNet ==
    InitDev /\ [][NextNet]_vars

----------------------------------------------------------------------------
(* The running stack: the state App::new leaves (both devices opened by    *)
(* run_net), frames arriving on the TAP fd, the signal loop of main        *)
(* serving the pending IRQs one handler at a time, and callers of the      *)
(* IPv4 send and ARP resolve entry points.                                 *)

\* the state of the constructors of App::new, before run_net
Constructed ==
    [flags |-> [d \in AllDev |-> InitFlags(d)],
     driver |-> [d \in AllDev |-> "None"],
     hwAddr |-> [d \in AllDev |-> MAC_ADDRESS_ANY],
     loQueue |-> <<>>, tapRx |-> <<>>,
     protoQueue |-> [t \in {ETHERTYPE_IPV4, ETHERTYPE_ARP} |-> <<>>],
     arpCache |-> <<>>, idNext |-> 0,
     irq |-> [s \in {INTR_IRQ_LOOPBACK, INTR_IRQ_ETHERNET_TAP, INTR_IRQ_L3} |-> 0],
     panicked |-> FALSE,
     enqLog |-> [t \in {ETHERTYPE_IPV4, ETHERTYPE_ARP} |-> <<>>],
     deqLog |-> [t \in {ETHERTYPE_IPV4, ETHERTYPE_ARP} |-> <<>>],
     pcbs |-> [i \in 1..UDP_PCB_LENGTH |-> None],
     tx |-> <<>>, rlog |-> <<>>, slog |-> <<>>, elog |-> <<>>, errs |-> <<>>,
     hlog |-> <<>>, ev |-> <<>>]

\* App::new
InitStack ==
    LET w == run_net(Constructed, Devices).w
    IN  /\ flags = w.flags
        /\ driver = w.driver
        /\ hwAddr = w.hwAddr
        /\ loQueue = w.loQueue
        /\ InitRest

\* a frame arrives on the TAP fd and the kernel signals the device's IRQ
TapArrive(frame) ==
    LET w == Raise([World EXCEPT !.tapRx = Append(@, frame)], INTR_IRQ_ETHERNET_TAP)
    IN  /\ ~panicked
        /\ nArrived < MaxArrivals
        /\ is_up(flags["eth"])
        /\ Commit(w)
        /\ nArrived' = nArrived + 1
        /\ last' = Op("arrive", "eth", <<frame>>, Res(w, "Ok"))
        /\ UNCHANGED <<now, nCalls, routes, regLog>>

\* the signal loop takes a pending device IRQ: App::handle_irq_l2
IrqL2(sig) ==
    LET r == handle_irq_l2([World EXCEPT !.irq[sig] = @ - 1], sig)
    IN  /\ ~panicked
        /\ threads.main = "loop"
        /\ irq[sig] > 0
        /\ Commit(r.w)
        /\ last' = Op("irq_l2", IF sig = INTR_IRQ_LOOPBACK THEN "lo" ELSE "eth",
                      <<[signal |-> sig]>>, r)
        /\ UNCHANGED <<now, nArrived, nCalls, routes, regLog>>

\* the signal loop takes a pending L3 IRQ: App::handle_irq_l3
IrqL3 ==
    LET r == handle_irq_l3([World EXCEPT !.irq[INTR_IRQ_L3] = @ - 1])
    IN  /\ ~panicked
        /\ threads.main = "loop"
        /\ irq[INTR_IRQ_L3] > 0
        /\ Commit(r.w)
        /\ last' = Op("irq_l3", "none", <<>>, r)
        /\ UNCHANGED <<now, nArrived, nCalls, routes, regLog>>

\* a caller of send (ipv4.rs)
Ipv4Send(protocol, data, src, dst) ==
    LET r == ipv4_send(World, protocol, data, src, dst)
    IN  /\ ~panicked
        /\ nCalls < MaxCalls
        /\ Len(loQueue) < MaxLoQueue
        /\ Commit(r.w)
        /\ nCalls' = nCalls + 1
        /\ last' = Op("ipv4_send", "none", <<protocol, data, src, dst>>, r)
        /\ UNCHANGED <<now, nArrived, routes, regLog>>

\* a caller of resolve_arp on the interface of device d
Resolve(d, target) ==
    LET r == resolve_arp(World, d, d, target)
    IN  /\ ~panicked
        /\ nCalls < MaxCalls
        /\ Commit(r.w)
        /\ nCalls' = nCalls + 1
        /\ last' = Op("resolve", d, <<target>>, Res(r.w, r.ret))
        /\ UNCHANGED <<now, nArrived, routes, regLog>>

\* the application thread of App::run binds its endpoint, once
AppEndpoint ==
    [address |-> IPV4_ANY, port |-> 8000]

AppBind ==
    LET b == udp_bind(pcbs, AppEndpoint)
        w == [World EXCEPT !.pcbs = b.pcbs]
    IN  /\ ~panicked
        /\ threads.app = "bind"
        /\ \A i \in 1..UDP_PCB_LENGTH : pcbs[i] = None
        /\ Store(w)
        /\ threads' = [threads EXCEPT !.app = "loop"]
        /\ last' = Op("bind", "none", <<AppEndpoint>>,
                      Res(w, IF b.ret = None THEN "BindFailed" ELSE "Ok"))
        /\ UNCHANGED <<now, nArrived, nCalls, routes, regLog>>

\* the wall clock advances (Instant::now() of the ARP cache)
Tick ==
    /\ ~panicked
    /\ now + TickStep <= MaxNow
    /\ now' = now + TickStep
    /\ last' = [NoOp EXCEPT !.op = "tick"]
    /\ UNCHANGED <<flags, driver, hwAddr, loQueue, tapRx, protoQueue, arpCache,
                   idNext, nBuilt, irq, panicked, nArrived, nCalls, enqLog, deqLog,
                   routes, regLog, pcbs, threads>>

----------------------------------------------------------------------------
(* The peers on the TAP link and what they put on the wire. *)

MacG == <<2, 0, 0, 0, 0, 1>>
MacN == <<2, 0, 0, 0, 0, 9>>
MacOther == <<2, 0, 0, 0, 0, 66>>
HostN == <<192, 0, 2, 9>>
HostOther == <<192, 0, 2, 7>>
Remote == <<8, 8, 8, 8>>
Us == <<192, 0, 2, 2>>
Localhost == <<127, 0, 0, 1>>

\* an Ethernet II frame as a peer writes it
WireFrame(dst, src, ty, payload) ==
    BConcat(Buf(dst \o src \o U16Bytes(ty), 0), payload)

\* an ARP message of a peer
PeerArp(htype, oper, sha, spa, tha, tpa) ==
    ArpMessage_to_bytes(
        [header |-> [htype |-> htype, ptype |-> ETHERTYPE_IPV4,
                     hlen |-> MAC_ADDRESS_LEN, plen |-> ARP_PLEN_IPV4,
                     oper |-> oper],
         sha |-> sha, spa |-> spa, tha |-> tha, tpa |-> tpa])

\* an IPv4 packet of a peer: the header with its checksum (or a wrong one)
\* and the payload
PeerIp(vhl, ffo, protocol, src, dst, payload, goodSum) ==
    LET h0 == [vhl |-> vhl, tos |-> 0,
               total_length |-> ((vhl % 16) * 4 + BLen(payload)) % 65536,
               identification |-> 7, ffo |-> ffo, ttl |-> 64,
               protocol |-> protocol, header_checksum |-> 0,
               src |-> src, dst |-> dst]
        c == calculate_checksum(Buf(Ipv4Header_to_bytes(h0), 0), 0)
        h == [h0 EXCEPT !.header_checksum = IF goodSum THEN c ELSE (c + 1) % 65536]
    IN  BConcat(Buf(Ipv4Header_to_bytes(h), 0), payload)

\* an ICMP message of a peer, checksum included
PeerIcmp(ty, data) ==
    IcmpMessage(ty, 0, calculate_checksum(IcmpMessage(ty, 0, 0, <<0, 1, 0, 1>>, data), 0),
                <<0, 1, 0, 1>>, data)

\* a UDP datagram of a peer with the given length field, filling total bytes
PeerUdp(src, dst, sport, dport, length, total, goodSum) ==
    LET body == Buf(<<49, 50>>, total - UDP_HEADER_SIZE - 2)
        d0 == BConcat(Buf(U16Bytes(sport) \o U16Bytes(dport) \o U16Bytes(length)
                          \o <<0, 0>>, 0), body)
        c == calculate_checksum(
                 BConcat(PseudoHeader_to_bytes(src, dst, IPPROTO_UDP, length), d0), 0)
        c1 == IF goodSum THEN c ELSE (c + 1) % 65536
    IN  BConcat(Buf(U16Bytes(sport) \o U16Bytes(dport) \o U16Bytes(length)
                    \o U16Bytes(c1), 0), body)

\* the bytes left for the transport payload in a full frame
FullPayload ==
    ETHERNET_PAYLOAD_MAX_SIZE - IPV4_HEADER_MIN_LENGTH

ArpRequestFromG ==
    WireFrame(MAC_ADDRESS_BROADCAST, MacG, ETHERTYPE_ARP,
              PeerArp(ARP_HARDWARE_TYPE_ETHERNET, ARP_OPERATION_REQUEST, MacG,
                      Gateway, MAC_ADDRESS_ANY, Us))

ArpReplyFromG ==
    WireFrame(MacM, MacG, ETHERTYPE_ARP,
              PeerArp(ARP_HARDWARE_TYPE_ETHERNET, ARP_OPERATION_REPLY, MacG,
                      Gateway, MacM, Us))

ArpRequestFromN ==
    WireFrame(MAC_ADDRESS_BROADCAST, MacN, ETHERTYPE_ARP,
              PeerArp(ARP_HARDWARE_TYPE_ETHERNET, ARP_OPERATION_REQUEST, MacN,
                      HostN, MAC_ADDRESS_ANY, Us))

ArpRequestForOther ==
    WireFrame(MAC_ADDRESS_BROADCAST, MacN, ETHERTYPE_ARP,
              PeerArp(ARP_HARDWARE_TYPE_ETHERNET, ARP_OPERATION_REQUEST, MacN,
                      HostN, MAC_ADDRESS_ANY, HostOther))

ArpBadHtype ==
    WireFrame(MAC_ADDRESS_BROADCAST, MacN, ETHERTYPE_ARP,
              PeerArp(6, ARP_OPERATION_REQUEST, MacN, HostN, MAC_ADDRESS_ANY, Us))

FrameNotForMe ==
    WireFrame(MacOther, MacN, ETHERTYPE_ARP,
              PeerArp(ARP_HARDWARE_TYPE_ETHERNET, ARP_OPERATION_REQUEST, MacN,
                      HostN, MAC_ADDRESS_ANY, Us))

FrameUnknownType ==
    WireFrame(MacM, MacN, 34525, Buf(<<96>>, 39))

FrameRunt ==
    Buf(<<255, 255, 255>>, 0)

FrameGiant ==
    WireFrame(MacM, MacN, ETHERTYPE_IPV4,
              PeerIp(IPV4_VHL, 0, IPPROTO_ICMP, HostN, Us,
                     PeerIcmp(ICMP_ECHO, Buf(<<1>>, 1599)), TRUE))

IpEchoFromN ==
    WireFrame(MacM, MacN, ETHERTYPE_IPV4,
              PeerIp(IPV4_VHL, 0, IPPROTO_ICMP, HostN, Us,
                     PeerIcmp(ICMP_ECHO, Buf(<<97, 98>>, 0)), TRUE))

IpEchoFromRemote ==
    WireFrame(MacM, MacG, ETHERTYPE_IPV4,
              PeerIp(IPV4_VHL, 0, IPPROTO_ICMP, Remote, Us,
                     PeerIcmp(ICMP_ECHO, Buf(<<97, 98>>, 0)), TRUE))

IpEchoReply ==
    WireFrame(MacM, MacN, ETHERTYPE_IPV4,
              PeerIp(IPV4_VHL, 0, IPPROTO_ICMP, HostN, Us,
                     PeerIcmp(ICMP_ECHO_REPLY, Buf(<<97, 98>>, 0)), TRUE))

IpIcmpUnknownType ==
    WireFrame(MacM, MacN, ETHERTYPE_IPV4,
              PeerIp(IPV4_VHL, 0, IPPROTO_ICMP, HostN, Us,
                     PeerIcmp(3, Buf(<<97, 98>>, 0)), TRUE))

IpBadVersion ==
    WireFrame(MacM, MacN, ETHERTYPE_IPV4,
              PeerIp(101, 0, IPPROTO_ICMP, HostN, Us,
                     PeerIcmp(ICMP_ECHO, Buf(<<97, 98>>, 0)), TRUE))

IpShortHeader ==
    WireFrame(MacM, MacN, ETHERTYPE_IPV4,
              PeerIp(68, 0, IPPROTO_ICMP, HostN, Us,
                     PeerIcmp(ICMP_ECHO, Buf(<<97, 98>>, 0)), TRUE))

IpBadChecksum ==
    WireFrame(MacM, MacN, ETHERTYPE_IPV4,
              PeerIp(IPV4_VHL, 0, IPPROTO_ICMP, HostN, Us,
                     PeerIcmp(ICMP_ECHO, Buf(<<97, 98>>, 0)), FALSE))

IpFragment ==
    WireFrame(MacM, MacN, ETHERTYPE_IPV4,
              PeerIp(IPV4_VHL, 8192, IPPROTO_ICMP, HostN, Us,
                     PeerIcmp(ICMP_ECHO, Buf(<<97, 98>>, 0)), TRUE))

IpUnknownProtocol ==
    WireFrame(MacM, MacN, ETHERTYPE_IPV4,
              PeerIp(IPV4_VHL, 0, 6, HostN, Us, Buf(<<0, 80>>, 18), TRUE))

IpForOther ==
    WireFrame(MacM, MacN, ETHERTYPE_IPV4,
              PeerIp(IPV4_VHL, 0, IPPROTO_ICMP, HostN, HostOther,
                     PeerIcmp(ICMP_ECHO, Buf(<<97, 98>>, 0)), TRUE))

UdpFull ==
    WireFrame(MacM, MacN, ETHERTYPE_IPV4,
              PeerIp(IPV4_VHL, 0, IPPROTO_UDP, HostN, Us,
                     PeerUdp(HostN, Us, 4000, 8000, FullPayload, FullPayload, TRUE),
                     TRUE))

UdpBadLength ==
    WireFrame(MacM, MacN, ETHERTYPE_IPV4,
              PeerIp(IPV4_VHL, 0, IPPROTO_UDP, HostN, Us,
                     PeerUdp(HostN, Us, 4000, 8000, 10, 10, TRUE), TRUE))

UdpBadChecksum ==
    WireFrame(MacM, MacN, ETHERTYPE_IPV4,
              PeerIp(IPV4_VHL, 0, IPPROTO_UDP, HostN, Us,
                     PeerUdp(HostN, Us, 4000, 8000, FullPayload, FullPayload, FALSE),
                     TRUE))

UdpNoSocket ==
    WireFrame(MacM, MacN, ETHERTYPE_IPV4,
              PeerIp(IPV4_VHL, 0, IPPROTO_UDP, HostN, Us,
                     PeerUdp(HostN, Us, 4000, 9, FullPayload, FullPayload, TRUE),
                     TRUE))

\* the frames of the receive specification: one of each kind the handlers
\* tell apart
IngressFrames ==
    {ArpRequestFromG, ArpRequestForOther, ArpBadHtype, FrameNotForMe,
     FrameUnknownType, FrameRunt, FrameGiant, IpEchoFromN, IpEchoReply,
     IpIcmpUnknownType, IpBadVersion, IpShortHeader, IpBadChecksum, IpFragment,
     IpUnknownProtocol, IpForOther, UdpFull, UdpBadLength, UdpBadChecksum,
     UdpNoSocket}

\* what a local caller hands to send (ipv4.rs) for the loopback interface
LocalPayloads ==
    {PeerIcmp(ICMP_ECHO, Buf(<<49, 50>>, 0)),
     PeerIcmp(ICMP_ECHO, Buf(<<49>>, 0)),
     Buf(<<ICMP_ECHO>>, 0)}

\* a local caller sends to the loopback interface
LocalSend(data) ==
    /\ nCalls < MaxLocal
    /\ Ipv4Send(IPPROTO_ICMP, data, IPV4_ANY, Localhost)

NextIngress ==
    \/ \E f \in IngressFrames : TapArrive(f)
    \/ \E sig \in {INTR_IRQ_LOOPBACK, INTR_IRQ_ETHERNET_TAP} : IrqL2(sig)
    \/ IrqL3
    \/ \E data \in LocalPayloads : LocalSend(data)
    \/ AppBind

SpecIngress ==
    InitStack /\ [][NextIngress]_vars

\* the frames of the forwarding specification: IPv4 packets for another
\* host and for this one, and an ARP request the cache learns from
ForeignFrames ==
    {IpForOther, IpEchoFromN, UdpFull, ArpRequestFromG}

NextForeign ==
    \/ \E f \in ForeignFrames : TapArrive(f)
    \/ IrqL2(INTR_IRQ_ETHERNET_TAP)
    \/ IrqL3
    \/ AppBind

SpecForeign ==
    InitStack /\ [][NextForeign]_vars

\* the frames of the queue specification: for each protocol queue an entry
\* its handler accepts and one it refuses
QueueFrames ==
    {ArpRequestFromN, ArpBadHtype, IpEchoReply, IpBadChecksum}

NextQueue ==
    \/ \E f \in QueueFrames : TapArrive(f)
    \/ IrqL2(INTR_IRQ_ETHERNET_TAP)
    \/ IrqL3

SpecQueue ==
    InitStack /\ [][NextQueue]_vars

\* the frames of the filter specification: for each check of the Ethernet
\* receive a frame that passes it and one that fails it
FilterFrames ==
    {ArpRequestFromN, IpEchoReply, FrameNotForMe, FrameUnknownType,
     WireFrame(MacOther, MacN, 34525, Buf(<<96>>, 39)),
     WireFrame(MAC_ADDRESS_BROADCAST, MacN, 34525, Buf(<<96>>, 39))}

NextFilter ==
    \/ \E f \in FilterFrames : TapArrive(f)
    \/ IrqL2(INTR_IRQ_ETHERNET_TAP)
    \/ IrqL3

SpecFilter ==
    InitStack /\ [][NextFilter]_vars

\* the frames of the device-handler specification: an ARP and an IPv4
\* frame the Ethernet receive takes and one it drops
IsrFrames ==
    {ArpRequestFromN, IpEchoReply, FrameNotForMe}

\* what a caller sends on the loopback device
IsrPayloads ==
    {Buf(<<69>>, 19)}

\* a caller of NetDevice::send on the loopback device
IsrSend(data) ==
    LET r == NetDevice_send(World, "lo", data, ETHERTYPE_IPV4, MAC_ADDRESS_BROADCAST)
    IN  /\ nCalls < MaxCalls
        /\ Commit(r.w)
        /\ nCalls' = nCalls + 1
        /\ last' = Op("send", "lo", <<data>>, r)
        /\ UNCHANGED <<now, nArrived, routes, regLog>>

\* a caller of NetDevice::handle_isr on the device d, whatever signals are
\* pending (the device recv fails when there is nothing to read)
HandleIsr(d) ==
    LET r == handle_isr(World, d)
    IN  /\ ~panicked
        /\ Commit(r.w)
        /\ last' = Op("handle_isr", d, <<[registered |-> TRUE]>>, r)
        /\ UNCHANGED <<now, nArrived, nCalls, routes, regLog>>

\* the same caller on a loopback device that register_interface was never
\* called on: get_interface returns None
HandleIsrBare ==
    LET r == handle_isr_pushed(loopback_recv(World, "lo"), "lo", "None")
    IN  /\ ~panicked
        /\ Commit(r.w)
        /\ last' = Op("handle_isr", "lo", <<[registered |-> FALSE]>>, r)
        /\ UNCHANGED <<now, nArrived, nCalls, routes, regLog>>

NextIsr ==
    \/ \E f \in IsrFrames : TapArrive(f)
    \/ \E data \in IsrPayloads : IsrSend(data)
    \/ \E sig \in {INTR_IRQ_LOOPBACK, INTR_IRQ_ETHERNET_TAP} : IrqL2(sig)
    \/ \E d \in AllDev : HandleIsr(d)
    \/ HandleIsrBare

SpecIsr ==
    InitStack /\ [][NextIsr]_vars

\* the ARP requests of the ARP specification: the host N asks with every
\* combination of a supported and an unsupported hardware type, protocol
\* type, hardware address length and protocol address length, for the
\* address of the TAP interface and for another one; the gateway asks too
ArpHtypes == {ARP_HARDWARE_TYPE_ETHERNET, 6}
ArpPtypes == {ETHERTYPE_IPV4, 34525}
ArpHlens == {MAC_ADDRESS_LEN, 8}
ArpPlens == {ARP_PLEN_IPV4, 16}

ArpFrames ==
    {WireFrame(MAC_ADDRESS_BROADCAST, MacN, ETHERTYPE_ARP,
               ArpMessage_to_bytes(
                   [header |-> [htype |-> htype, ptype |-> ptype, hlen |-> hlen,
                                plen |-> plen, oper |-> ARP_OPERATION_REQUEST],
                    sha |-> MacN, spa |-> HostN, tha |-> MAC_ADDRESS_ANY,
                    tpa |-> tpa])) :
        htype \in ArpHtypes, ptype \in ArpPtypes, hlen \in ArpHlens,
        plen \in ArpPlens, tpa \in {Us, HostOther}}
      \cup {ArpRequestFromG}

NextArp ==
    \/ \E f \in ArpFrames : TapArrive(f)
    \/ IrqL2(INTR_IRQ_ETHERNET_TAP)
    \/ IrqL3

SpecArp ==
    InitStack /\ [][NextArp]_vars

\* the frames of the send specification: the gateway and an on-link host
\* answer and ask, a remote host pings
StackFrames ==
    {ArpReplyFromG, ArpRequestFromN, IpEchoFromRemote}

SendPayloads ==
    {PeerIcmp(ICMP_ECHO, Buf(<<49, 50>>, 0))}

SendDsts ==
    {Remote, HostN}

ResolveTargets ==
    {Gateway, HostN}

Next ==
    \/ \E f \in StackFrames : TapArrive(f)
    \/ IrqL2(INTR_IRQ_ETHERNET_TAP)
    \/ IrqL3
    \/ \E data \in SendPayloads : \E dst \in SendDsts :
          Ipv4Send(IPPROTO_ICMP, data, IPV4_ANY, dst)
    \/ \E t \in ResolveTargets : Resolve("eth", t)
    \/ Tick

Spec ==
    InitStack /\ [][Next]_vars

\* the frames of the cache specification: the gateway announces itself
\* with one hardware address and then with another, a neighbour asks for
\* this host, and the gateway asks for another host
CacheFrames ==
    {ArpReplyFromG, ArpRequestFromN,
     WireFrame(MAC_ADDRESS_BROADCAST, MacOther, ETHERTYPE_ARP,
               PeerArp(ARP_HARDWARE_TYPE_ETHERNET, ARP_OPERATION_REQUEST,
                       MacOther, Gateway, MAC_ADDRESS_ANY, Us)),
     WireFrame(MAC_ADDRESS_BROADCAST, MacOther, ETHERTYPE_ARP,
               PeerArp(ARP_HARDWARE_TYPE_ETHERNET, ARP_OPERATION_REQUEST,
                       MacOther, Gateway, MAC_ADDRESS_ANY, HostOther))}

NextCache ==
    \/ \E f \in CacheFrames : TapArrive(f)
    \/ IrqL2(INTR_IRQ_ETHERNET_TAP)
    \/ IrqL3
    \/ \E t \in ResolveTargets : Resolve("eth", t)
    \/ Tick

\* resolve calls and ARP receives on the stack of App::new, with the clock
SpecCache ==
    InitStack /\ [][NextCache]_vars

----------------------------------------------------------------------------
(* The datagram specification: applications call send (udp.rs) from the    *)
(* endpoint App::run binds and from the interface addresses, to the        *)
(* loopback address and to the broadcast address of the TAP interface; the *)
(* signal loop delivers what the loopback device queued.                   *)

\* a caller of send (udp.rs)
UdpSend(data, src, dst) ==
    LET r == udp_send(World, data, src, dst)
    IN  /\ ~panicked
        /\ nCalls < MaxCalls
        /\ Len(loQueue) < MaxLoQueue
        /\ Commit(r.w)
        /\ nCalls' = nCalls + 1
        /\ last' = Op("udp_send", "none", <<data, src, dst>>, r)
        /\ UNCHANGED <<now, nArrived, routes, regLog>>

NextDatagram ==
    \/ \E data \in {Buf(<<104, 105>>, 0), Buf(<<>>, 0), Buf(<<104>>, 0)} :
          \E a \in {IPV4_ANY, Localhost, Us} :
             \E dst \in {Localhost, Iface("eth").broadcast} :
                UdpSend(data, [address |-> a, port |-> AppEndpoint.port],
                        [address |-> dst, port |-> 8001])
    \/ IrqL2(INTR_IRQ_LOOPBACK)
    \/ IrqL3
    \/ AppBind

SpecDatagram ==
    InitStack /\ [][NextDatagram]_vars

----------------------------------------------------------------------------
(* The echo specification: the transport sends one ICMP Echo from          *)
(* 127.0.0.1 to 127.0.0.1 and the signal loop of main serves every pending *)
(* signal.                                                                 *)

\* the payload App::run holds (app.rs), and two-byte payloads followed by
\* zero bytes
EchoPayloads ==
    {Buf(<<49, 50, 51, 52, 53, 54, 55, 56, 57, 48, 33, 64, 35, 36, 37, 94, 38,
           42, 40, 41>>, 0)}
    \cup {Buf(<<a, b>>, z) : a \in {0, 49, 255}, b \in {0, 50, 255},
                             z \in {0, 18, 1470}}

\* the transport calls output (icmp.rs) with an Echo, once
EchoSend(data) ==
    LET r == icmp_output(World, ICMP_ECHO, 0, <<0, 1, 0, 1>>, data, Localhost,
                         Localhost)
    IN  /\ ~panicked
        /\ nCalls = 0
        /\ Commit(r.w)
        /\ nCalls' = nCalls + 1
        /\ last' = Op("icmp_output", "none", <<data>>, r)
        /\ UNCHANGED <<now, nArrived, routes, regLog>>

NextEcho ==
    \/ \E data \in EchoPayloads : EchoSend(data)
    \/ IrqL2(INTR_IRQ_LOOPBACK)
    \/ IrqL3

\* WF_vars(IrqL3) written out: IrqL3 is enabled exactly when its guard
\* holds, for it always takes a pending instance of the signal, and a step
\* is one of IrqL3 exactly when the operation it records is "irq_l3"
FairL3 ==
    \/ []<>~(~panicked /\ threads.main = "loop" /\ irq[INTR_IRQ_L3] > 0)
    \/ []<><<last'.op = "irq_l3">>_vars

\* signals.forever() of main hands every pending signal to its handler
SpecEcho ==
    /\ InitStack
    /\ [][NextEcho]_vars
    /\ WF_vars(IrqL2(INTR_IRQ_LOOPBACK))
    /\ FairL3

\* the payload of the drain specification: an Echo to the loopback address
DrainPayloads ==
    {PeerIcmp(ICMP_ECHO, Buf(<<49, 50>>, 0))}

\* the frames of the drain specification: an entry the ARP handler accepts
\* and, for each protocol queue, one its handler refuses
DrainFrames ==
    {ArpRequestFromN, ArpBadHtype, IpBadChecksum}

NextDrain ==
    \/ \E f \in DrainFrames : TapArrive(f)
    \/ \E data \in DrainPayloads : LocalSend(data)
    \/ \E sig \in {INTR_IRQ_LOOPBACK, INTR_IRQ_ETHERNET_TAP} : IrqL2(sig)
    \/ IrqL3

\* WF_vars(IrqL2(sig)) written out as FairL3 is: IrqL2(sig) is enabled
\* exactly when its guard holds and a step is one of IrqL2(sig) exactly
\* when it records the operation "irq_l2" with that signal
FairL2(sig) ==
    \/ []<>~(~panicked /\ threads.main = "loop" /\ irq[sig] > 0)
    \/ []<><<last'.op = "irq_l2" /\ last'.arg = <<[signal |-> sig]>>>>_vars

\* the queue specification with a local sender, no terminal signal, and a
\* signal loop that hands every pending signal to its handler
SpecDrain ==
    /\ InitStack
    /\ [][NextDrain]_vars
    /\ FairL2(INTR_IRQ_LOOPBACK)
    /\ FairL2(INTR_IRQ_ETHERNET_TAP)
    /\ FairL3

----------------------------------------------------------------------------
(* The shutdown specification: the stack of App::new with frames arriving  *)
(* on the TAP fd, the signal loop of main taking IRQs until it takes a     *)
(* terminal signal, and then the rest of main (src/main.rs 59-62) next to  *)
(* the application thread of App::run (src/app.rs 77-99).                  *)

\* frames that make the handlers transmit on the TAP device
ShutdownFrames ==
    {ArpRequestFromG, IpEchoFromN}

\* the signal loop takes a terminal signal and breaks
Term ==
    /\ ~panicked
    /\ threads.main = "loop"
    /\ threads' = [threads EXCEPT !.main = "send"]
    /\ last' = [NoOp EXCEPT !.op = "term"]
    /\ UNCHANGED <<flags, driver, hwAddr, loQueue, tapRx, protoQueue, arpCache,
                   idNext, nBuilt, irq, now, panicked, nArrived, nCalls, enqLog,
                   deqLog, routes, regLog, pcbs>>

\* tx.send(()).unwrap(): the send fails, and main panics, when the receiver
\* went away with the app thread
MainSend ==
    /\ ~panicked
    /\ threads.main = "send"
    /\ IF threads.app = "done"
       THEN /\ panicked' = TRUE
            /\ threads' = threads
            /\ last' = [NoOp EXCEPT !.op = "tx_send", !.ret = "Panic"]
       ELSE /\ panicked' = panicked
            /\ threads' = [threads EXCEPT !.main = "join", !.chan = @ + 1]
            /\ last' = [NoOp EXCEPT !.op = "tx_send"]
    /\ UNCHANGED <<flags, driver, hwAddr, loQueue, tapRx, protoQueue, arpCache,
                   idNext, nBuilt, irq, now, nArrived, nCalls, enqLog,
                   deqLog, routes, regLog, pcbs>>

\* the turn of the loop of the app thread in which try_recv takes a message
\* and the thread ends; a turn that finds none sleeps and changes nothing
AppPoll ==
    /\ ~panicked
    /\ threads.app = "loop"
    /\ threads.chan > 0
    /\ threads' = [threads EXCEPT !.app = "done", !.chan = @ - 1]
    /\ last' = [NoOp EXCEPT !.op = "try_recv"]
    /\ UNCHANGED <<flags, driver, hwAddr, loQueue, tapRx, protoQueue, arpCache,
                   idNext, nBuilt, irq, now, panicked, nArrived, nCalls, enqLog,
                   deqLog, routes, regLog, pcbs>>

\* a join that does not wait for the app thread
MainJoinNoWait ==
    /\ ~panicked
    /\ threads.main = "join"
    /\ threads' = [threads EXCEPT !.main = "stop"]
    /\ last' = [NoOp EXCEPT !.op = "join"]
    /\ UNCHANGED <<flags, driver, hwAddr, loQueue, tapRx, protoQueue, arpCache,
                   idNext, nBuilt, irq, now, panicked, nArrived, nCalls, enqLog,
                   deqLog, routes, regLog, pcbs>>

\* app_join.join().unwrap() returns once the app thread has ended, and
\* handle.close() ends the signal iterator
MainJoin ==
    /\ ~panicked
    /\ threads.main = "join"
    /\ threads.app = "done"
    /\ threads' = [threads EXCEPT !.main = "stop"]
    /\ last' = [NoOp EXCEPT !.op = "join"]
    /\ UNCHANGED <<flags, driver, hwAddr, loQueue, tapRx, protoQueue, arpCache,
                   idNext, nBuilt, irq, now, panicked, nArrived, nCalls, enqLog,
                   deqLog, routes, regLog, pcbs>>

\* App::stop: stop_net(..).unwrap(), after which main returns
AppStop ==
    LET r == stop_net(World, Devices)
    IN  /\ ~panicked
        /\ threads.main = "stop"
        /\ Store([r.w EXCEPT !.panicked = (r.ret # "Ok")])
        /\ threads' = [threads EXCEPT !.main = "exit", !.closed = r.closed]
        /\ last' = Op("stop", "none", <<>>, Res(r.w, r.ret))
        /\ UNCHANGED <<now, nArrived, nCalls, routes, regLog>>

NextShutdown ==
    \/ \E f \in ShutdownFrames : TapArrive(f)
    \/ IrqL2(INTR_IRQ_ETHERNET_TAP)
    \/ IrqL3
    \/ AppBind
    \/ AppPoll
    \/ Term
    \/ MainSend
    \/ MainJoin
    \/ AppStop

\* once the signal loop is left, main runs to its end, and the app thread
\* runs too (its sleep is one second long)
SpecShutdown ==
    /\ InitStack
    /\ [][NextShutdown]_vars
    /\ WF_vars(MainSend)
    /\ WF_vars(MainJoin)
    /\ WF_vars(AppStop)
    /\ WF_vars(AppBind)
    /\ WF_vars(AppPoll)

----------------------------------------------------------------------------
(* The locks: every handler and call as the sequence of lock() calls and    *)
(* guard drops it makes, in program order, run one step at a time by the   *)
(* two threads (src/app.rs, src/devices.rs, src/devices/loopback.rs,       *)
(* src/protocols.rs, src/protocols/arp.rs, src/protocols/ipv4.rs).         *)

Lock(m) ==
    [act |-> "lock", m |-> m]

Unlock(m) ==
    [act |-> "unlock", m |-> m]

\* m.lock().unwrap(), the body, and the drop of the guard at the end of
\* its scope
Scoped(m, body) ==
    <<Lock(m)>> \o body \o <<Unlock(m)>>

\* the mutex of the queue of a protocol type
QueueOf(ty) ==
    IF ty = ETHERTYPE_IPV4 THEN "ipv4" ELSE "arp"

\* NetDevice::handle_isr on the device d whose recv returns a frame of the
\* type got, or fails (got = 0): loopback::recv locks the FIFO, and the
\* push locks the queue of the matching protocol
IsrProgram(d, got) ==
    (IF DevType(d) = "Loopback" THEN Scoped("fifo", <<>>) ELSE <<>>)
    \o (IF got = 0 THEN <<>> ELSE Scoped(QueueOf(got), <<>>))

RECURSIVE L2Walk(_, _, _)
\* the loop of App::handle_irq_l2 from the i-th device on: lock the device;
\* if its IRQ is the signal, lock the protocols, run the handler and break
L2Walk(sig, got, i) ==
    IF i > Len(Devices) THEN <<>>
    ELSE IF DevIrq(Devices[i]) = sig
    THEN Scoped(Devices[i], Scoped("protocols", IsrProgram(Devices[i], got)))
    ELSE Scoped(Devices[i], <<>>) \o L2Walk(sig, got, i + 1)

\* an L2 handler that hands the frame to the protocol handler itself, under
\* the context and PCB locks, instead of pushing it on a queue
L2ProgramDirect(sig, got) ==
    Scoped("devices",
           Scoped(Devices[Len(Devices)],
                  Scoped("protocols", Scoped("context", Scoped("pcbs", <<>>)))))

\* App::handle_irq_l2
L2Program(sig, got) ==
    Scoped("devices", L2Walk(sig, got, 1))

\* what a protocol handler locks for one queue entry: nothing, or the
\* device it sends on (reply of arp.rs, send of ipv4.rs) and, for the
\* loopback device, the FIFO inside its send
HandlerLocks(h) ==
    CASE h = "none" -> <<>>
      [] h = "eth" -> Scoped("eth", <<>>)
      [] h = "lo" -> Scoped("lo", Scoped("fifo", <<>>))

RECURSIVE EntriesLocks(_)
EntriesLocks(hs) ==
    IF hs = <<>> THEN <<>> ELSE HandlerLocks(Head(hs)) \o EntriesLocks(Tail(hs))

\* NetProtocol::recv: the queue stays locked while its entries are handled
RecvProgram(q, hs) ==
    Scoped(q, EntriesLocks(hs))

\* App::handle_irq_l3: context, PCB table, the protocols list, then the
\* queue of each protocol in list order
L3Program(ip, arp) ==
    Scoped("context",
           Scoped("pcbs",
                  Scoped("protocols",
                         RecvProgram("ipv4", ip) \o RecvProgram("arp", arp))))

\* the bind of the app thread (App::run)
BindProgram ==
    Scoped("pcbs", <<>>)

\* a send of the app thread: the context, then what send (ipv4.rs) locks
SendProgram(h) ==
    Scoped("context", HandlerLocks(h))

\* App::stop and stop_net
StopProgram ==
    Scoped("devices", Scoped("lo", <<>>) \o Scoped("eth", <<>>))

\* the signals of the device handlers in the signal set of main:
\* INTR_IRQ_NULL, which no device of App::new is bound to, and the two
\* device IRQs
L2Signals ==
    {INTR_IRQ_LOOPBACK - 1, INTR_IRQ_LOOPBACK, INTR_IRQ_ETHERNET_TAP}

\* what the device recv of an L2 handler may return on the signal sig
GotOf(sig) ==
    IF sig = INTR_IRQ_ETHERNET_TAP THEN {0, ETHERTYPE_IPV4, ETHERTYPE_ARP}
    ELSE IF sig = INTR_IRQ_LOOPBACK THEN {0, ETHERTYPE_IPV4}
    ELSE {0}

\* the entries an L3 handler may find in the IPv4 queue (one that sends
\* nothing, one answered on the TAP device, one answered on the loopback
\* device) and in the ARP queue (one ignored, one replied to)
L3Ipv4Entries ==
    {<<>>, <<"none">>, <<"eth">>, <<"lo">>, <<"lo", "eth">>}

L3ArpEntries ==
    {<<>>, <<"none">>, <<"eth">>}

\* what a step of the locks leaves alone
LockFrame ==
    UNCHANGED <<flags, driver, hwAddr, loQueue, tapRx, protoQueue, arpCache,
                idNext, nBuilt, irq, now, panicked, enqLog, deqLog, routes,
                regLog, pcbs>>

\* the signal loop takes a signal and enters the handler whose locks are prog
MainHandler(name, prog) ==
    /\ threads.main = "loop"
    /\ threads.todo["main"] = <<>>
    /\ nArrived < MaxArrivals
    /\ threads' = [threads EXCEPT !.todo["main"] = prog]
    /\ nArrived' = nArrived + 1
    /\ last' = [NoOp EXCEPT !.op = name, !.dev = "main"]
    /\ UNCHANGED nCalls
    /\ LockFrame

\* the app thread enters its bind, once
AppBinds ==
    /\ threads.app = "bind"
    /\ threads' = [threads EXCEPT !.app = "loop", !.todo["app"] = BindProgram]
    /\ last' = [NoOp EXCEPT !.op = "bind", !.dev = "app"]
    /\ UNCHANGED <<nArrived, nCalls>>
    /\ LockFrame

\* the app thread enters a send in a turn of its loop
AppSends(h) ==
    /\ threads.app = "loop"
    /\ threads.todo["app"] = <<>>
    /\ nCalls < MaxCalls
    /\ threads' = [threads EXCEPT !.todo["app"] = SendProgram(h)]
    /\ nCalls' = nCalls + 1
    /\ last' = [NoOp EXCEPT !.op = "send", !.dev = "app"]
    /\ UNCHANGED nArrived
    /\ LockFrame

\* the thread t makes its next lock() call, which returns once the mutex is
\* free, or drops its next guard
LockStep(t) ==
    /\ threads.todo[t] # <<>>
    /\ Head(threads.todo[t]).act = "lock" =>
          threads.held[Head(threads.todo[t]).m] = "free"
    /\ threads' = [threads EXCEPT
                     !.todo[t] = Tail(@),
                     !.held[Head(threads.todo[t]).m] =
                         IF Head(threads.todo[t]).act = "lock" THEN t ELSE "free"]
    /\ last' = [NoOp EXCEPT !.op = Head(threads.todo[t]).act, !.dev = t,
                            !.arg = <<[mutex |-> Head(threads.todo[t]).m]>>]
    /\ UNCHANGED <<nArrived, nCalls>>
    /\ LockFrame

\* the terminal signal is taken between two handlers
LockTerm ==
    /\ threads.todo["main"] = <<>>
    /\ Term

\* the app thread looks at the channel between two turns of its loop
LockPoll ==
    /\ threads.todo["app"] = <<>>
    /\ AppPoll

\* main enters App::stop
LockStop ==
    /\ threads.main = "stop"
    /\ threads' = [threads EXCEPT !.main = "exit", !.todo["main"] = StopProgram]
    /\ last' = [NoOp EXCEPT !.op = "stop", !.dev = "main"]
    /\ UNCHANGED <<nArrived, nCalls>>
    /\ LockFrame

NextLock ==
    \/ \E sig \in L2Signals : \E got \in GotOf(sig) :
          MainHandler("irq_l2", L2Program(sig, got))
    \/ \E ip \in L3Ipv4Entries : \E arp \in L3ArpEntries :
          MainHandler("irq_l3", L3Program(ip, arp))
    \/ AppBinds
    \/ \E h \in {"none", "eth", "lo"} : AppSends(h)
    \/ \E t \in {"main", "app"} : LockStep(t)
    \/ LockTerm
    \/ MainSend
    \/ LockPoll
    \/ MainJoin
    \/ LockStop

\* a thread that can run its next step does so in the end, and main runs
\* to its end once it has left the signal loop
SpecLock ==
    /\ InitStack
    /\ [][NextLock]_vars
    /\ WF_vars(LockStep("main"))
    /\ WF_vars(LockStep("app"))
    /\ WF_vars(MainSend)
    /\ WF_vars(LockPoll)
    /\ WF_vars(MainJoin)
    /\ WF_vars(LockStop)

----------------------------------------------------------------------------
(* The link specification: callers of send (ipv4.rs) with destinations of  *)
(* every kind its link step tells apart (an on-link host, a host behind    *)
(* the gateway, the broadcast address of the TAP interface, the limited    *)
(* broadcast, the loopback interface), and the peers whose ARP messages    *)
(* fill the cache.                                                         *)

LinkDsts ==
    {HostN, Remote, Iface("eth").broadcast, IPV4_BROADCAST, Localhost}

LinkSrcs ==
    {IPV4_ANY}

LinkFrames ==
    {ArpRequestFromN}

NextLink ==
    \/ \E src \in LinkSrcs : \E dst \in LinkDsts :
          Ipv4Send(IPPROTO_ICMP, PeerIcmp(ICMP_ECHO, Buf(<<49, 50>>, 0)), src, dst)
    \/ \E f \in LinkFrames : TapArrive(f)
    \/ \E sig \in {INTR_IRQ_LOOPBACK, INTR_IRQ_ETHERNET_TAP} : IrqL2(sig)
    \/ IrqL3

SpecLink ==
    InitStack /\ [][NextLink]_vars

----------------------------------------------------------------------------
(* The identification specification: callers of send (ipv4.rs) with every  *)
(* kind of argument its checks tell apart, the echo replies the L3 handler *)
(* sends for the requests that come back on the loopback device, the TAP   *)
(* device going down and up, a router with and without its default route,  *)
(* and a counter that starts at 0 or just before its wrap.                 *)

\* the router of App::new before register_default
RoutesNoDefault ==
    register_interface_routes(register_interface_routes(<<>>, "lo"), "eth")

\* Ipv4IdGenerator.id at the start: new(), or after IdNearWrap sends
IdStarts ==
    {0, IdNearWrap}

InitId ==
    LET w == run_net(Constructed, Devices).w
    IN  /\ flags = w.flags
        /\ driver = w.driver
        /\ hwAddr = w.hwAddr
        /\ loQueue = w.loQueue
        /\ tapRx = <<>>
        /\ protoQueue = [t \in {ETHERTYPE_IPV4, ETHERTYPE_ARP} |-> <<>>]
        /\ arpCache = <<>>
        /\ idNext \in IdStarts
        /\ nBuilt = idNext
        /\ irq = [s \in {INTR_IRQ_LOOPBACK, INTR_IRQ_ETHERNET_TAP, INTR_IRQ_L3} |-> 0]
        /\ now = 0
        /\ panicked = FALSE
        /\ nArrived = 0
        /\ nCalls = 0
        /\ enqLog = [t \in {ETHERTYPE_IPV4, ETHERTYPE_ARP} |-> <<>>]
        /\ deqLog = [t \in {ETHERTYPE_IPV4, ETHERTYPE_ARP} |-> <<>>]
        /\ routes \in {InitRoutes, RoutesNoDefault}
        /\ regLog = IF routes = InitRoutes THEN InitRegistered ELSE RoutesNoDefault
        /\ pcbs = [i \in 1..UDP_PCB_LENGTH |-> None]
        /\ threads = Started
        /\ last = NoOp

\* an echo request, and a payload as long as the TAP device's MTU
IdPayloads ==
    {PeerIcmp(ICMP_ECHO, Buf(<<49, 50>>, 0)), Buf(<<>>, ETHERNET_PAYLOAD_MAX_SIZE)}

\* no source, or the TAP interface's address (which is not the loopback
\* interface's)
IdSrcs ==
    {IPV4_ANY, Us}

\* an on-link host, the limited broadcast (routed by the default route
\* only), the loopback interface
IdDsts ==
    {HostN, IPV4_BROADCAST, Localhost}

NextId ==
    \/ \E data \in IdPayloads : \E src \in IdSrcs : \E dst \in IdDsts :
          Ipv4Send(IPPROTO_ICMP, data, src, dst)
    \/ IrqL2(INTR_IRQ_LOOPBACK)
    \/ IrqL3
    \/ DevClose("eth")
    \/ DevOpen("eth", TRUE)

SpecId ==
    InitId /\ [][NextId]_vars

\* payload lengths around the two bounds of each device: the length check
\* of send (ipv4.rs), len < mtu, and the one of NetDevice::send on the
\* packet, 20 + len <= mtu
MtuLens(d) ==
    {Mtu(d) - IPV4_HEADER_MIN_LENGTH - 1, Mtu(d) - IPV4_HEADER_MIN_LENGTH,
     Mtu(d) - IPV4_HEADER_MIN_LENGTH + 1, Mtu(d) - 1, Mtu(d)}

\* a caller sends a payload of n bytes to an address routed over the device d:
\* the broadcast address of the TAP interface, or the loopback address
MtuSend(d, n) ==
    Ipv4Send(IPPROTO_ICMP, Buf(<<ICMP_ECHO>>, n - 1), IPV4_ANY,
             IF d = "eth" THEN Iface("eth").broadcast ELSE Localhost)

NextMtu ==
    \/ \E d \in {"lo", "eth"} : \E n \in MtuLens(d) : MtuSend(d, n)
    \/ IrqL2(INTR_IRQ_LOOPBACK)
    \/ IrqL3

\* sends of payloads around the MTU on the stack of App::new
SpecMtu ==
    InitStack /\ [][NextMtu]_vars

----------------------------------------------------------------------------
(* The router specification: a test builds a router by register and        *)
(* register_default calls on the interfaces of the router tests, and looks *)
(* destinations up in it.                                                  *)

RouterNetworks ==
    {<<192, 0, 0, 0>>, <<192, 0, 1, 0>>}

RouterIfaces ==
    {"eth0", "eth1", "eth0d"}

RouterGateways ==
    {<<192, 0, 0, 1>>, <<192, 0, 0, 254>>}

RouterDsts ==
    {<<192, 0, 1, 2>>, <<192, 1, 0, 2>>, <<192, 0, 0, 2>>, <<8, 8, 8, 8>>}

\* Ipv4Router::new, on the devices as constructed
InitRouter ==
    /\ InitDevices
    /\ tapRx = <<>>
    /\ protoQueue = [t \in {ETHERTYPE_IPV4, ETHERTYPE_ARP} |-> <<>>]
    /\ arpCache = <<>>
    /\ idNext = 0
    /\ nBuilt = 0
    /\ irq = [s \in {INTR_IRQ_LOOPBACK, INTR_IRQ_ETHERNET_TAP, INTR_IRQ_L3} |-> 0]
    /\ now = 0
    /\ panicked = FALSE
    /\ nArrived = 0
    /\ nCalls = 0
    /\ enqLog = [t \in {ETHERTYPE_IPV4, ETHERTYPE_ARP} |-> <<>>]
    /\ deqLog = [t \in {ETHERTYPE_IPV4, ETHERTYPE_ARP} |-> <<>>]
    /\ routes = <<>>
    /\ regLog = <<>>
    /\ pcbs = [i \in 1..UDP_PCB_LENGTH |-> None]
    /\ threads = Started
    /\ last = NoOp

\* what a call on the router leaves alone
RouterFrame ==
    UNCHANGED <<flags, driver, hwAddr, loQueue, tapRx, protoQueue, arpCache,
                idNext, nBuilt, irq, now, panicked, nArrived, nCalls, enqLog,
                deqLog, pcbs, threads>>

\* a caller of Ipv4Router::register
RouterRegister(network, ifc) ==
    /\ Len(routes) < MaxRoutes
    /\ routes' = Ipv4Router_register(routes, network, ifc)
    /\ regLog' = Append(regLog, routes'[Len(routes')])
    /\ last' = [NoOp EXCEPT !.op = "register", !.arg = <<network, ifc>>]
    /\ RouterFrame

\* a caller of Ipv4Router::register_default
RouterRegisterDefault(ifc, gateway) ==
    /\ Len(routes) < MaxRoutes
    /\ routes' = Ipv4Router_register_default(routes, ifc, gateway)
    /\ regLog' = Append(regLog, routes'[1])
    /\ last' = [NoOp EXCEPT !.op = "register_default", !.arg = <<ifc, gateway>>]
    /\ RouterFrame

\* a caller of Ipv4Router::lookup
RouterLookup(dst) ==
    /\ last' = [NoOp EXCEPT !.op = "lookup", !.arg = <<dst>>,
                            !.ret = Ipv4Router_lookup(routes, dst)]
    /\ UNCHANGED <<routes, regLog>>
    /\ RouterFrame

NextRouter ==
    \/ \E network \in RouterNetworks : \E ifc \in RouterIfaces :
          RouterRegister(network, ifc)
    \/ \E gateway \in RouterGateways : RouterRegisterDefault("eth0d", gateway)
    \/ \E dst \in RouterDsts : RouterLookup(dst)

SpecRouter ==
    InitRouter /\ [][NextRouter]_vars

\* the destinations of the dead-device specification: one that the routes
\* of the tests match and one that they do not
DeadDsts ==
    {<<192, 0, 0, 2>>, <<8, 8, 8, 8>>}

\* a router as the tests build it, its interfaces on devices that are
\* gone, and callers of send (ipv4.rs)
NextDead ==
    \/ \E network \in RouterNetworks : \E ifc \in RouterIfaces :
          RouterRegister(network, ifc)
    \/ \E src \in {IPV4_ANY, <<192, 0, 0, 1>>} : \E dst \in DeadDsts :
          Ipv4Send(IPPROTO_ICMP, PeerIcmp(ICMP_ECHO, Buf(<<49, 50>>, 0)), src, dst)

SpecDead ==
    InitRouter /\ [][NextDead]_vars

----------------------------------------------------------------------------
(* The header specification: a test validates IPv4 headers of every kind   *)
(* validate tells apart, serializes and parses them, builds headers as     *)
(* send (ipv4.rs) does, and checksums data as test_calculate_checksum      *)
(* (utils.rs) does.                                                        *)

\* version_header_length: 0x45, IHL 4, 6, 14 and 15, version 5
HeaderVhls ==
    {69, 68, 70, 78, 79, 85}

\* flags_fragment_offset: none, MF, DF, the reserved bit, offsets 1 and
\* 0x1fff
HeaderFfos ==
    {0, 8192, 16384, 32768, 1, 8191}

HeaderLengths ==
    {20, 1500}

\* a header with the given fields and a header checksum that is right
\* (good) or off by one
HeaderOf(vhl, ffo, protocol, total_length, src, good) ==
    LET h0 == [vhl |-> vhl, tos |-> 0, total_length |-> total_length,
               identification |-> 258, ffo |-> ffo, ttl |-> IPV4_TTL,
               protocol |-> protocol, header_checksum |-> 0, src |-> src,
               dst |-> Us]
        c == calculate_checksum(Buf(Ipv4Header_to_bytes(h0), 0), 0)
    IN  [h0 EXCEPT !.header_checksum = IF good THEN c ELSE (c + 1) % 65536]

Headers ==
    {HeaderOf(vhl, ffo, protocol, total_length, src, good) :
        vhl \in HeaderVhls, ffo \in HeaderFfos,
        protocol \in {IPPROTO_ICMP, IPPROTO_UDP},
        total_length \in HeaderLengths, src \in {HostN, Remote},
        good \in BOOLEAN}

\* payload lengths handed to create_ip_header, up to the longest whose
\* total length fits a u16
BuildLengths ==
    {0, 8, 1479, 65515}

BuildIds ==
    {0, 258, 65535}

\* a caller of Ipv4Header::validate
HeaderValidate(h) ==
    /\ last' = [NoOp EXCEPT !.op = "validate", !.arg = <<h>>,
                            !.ret = Ipv4Header_validate(h)]
    /\ UNCHANGED <<routes, regLog>>
    /\ RouterFrame

\* a caller of Ipv4Header::to_bytes and then Ipv4Header::try_from
HeaderRoundTrip(h) ==
    /\ last' = [NoOp EXCEPT
                  !.op = "round_trip", !.arg = <<h>>,
                  !.ret = [parse |-> Ipv4Header_try_from(Buf(Ipv4Header_to_bytes(h), 0)),
                           header |-> Ipv4Header_from(Buf(Ipv4Header_to_bytes(h), 0))]]
    /\ UNCHANGED <<routes, regLog>>
    /\ RouterFrame

\* a caller of create_ip_header, as send (ipv4.rs) calls it
HeaderBuild(id, protocol, src, dst, len) ==
    /\ last' = [NoOp EXCEPT
                  !.op = "build", !.arg = <<id, protocol, src, dst, len>>,
                  !.ret = create_ip_header(id, protocol, src, dst, Buf(<<>>, len))]
    /\ UNCHANGED <<routes, regLog>>
    /\ RouterFrame

\* the leading bytes of the data the checksum test sums
ChecksumBytes ==
    {0, 1, 128, 255}

ChecksumHeads ==
    {<<>>} \cup [1..1 -> ChecksumBytes] \cup [1..2 -> ChecksumBytes]
           \cup [1..3 -> ChecksumBytes]

\* the zero bytes that follow them: none, one, and as many as bring three
\* leading bytes to 2^15 bytes
ChecksumZeros ==
    {0, 1, 32765}

\* test_calculate_checksum: calculate_checksum(&data, 0), then
\* calculate_checksum(&data, sum); either call panics on data of odd length
ChecksumTwice(data) ==
    /\ last' = [NoOp EXCEPT
                  !.op = "checksum", !.arg = <<data>>,
                  !.ret = IF ChecksumPanics(data)
                          THEN [panic |-> TRUE, sum |-> 0, again |-> 0]
                          ELSE [panic |-> FALSE,
                                sum |-> calculate_checksum(data, 0),
                                again |-> calculate_checksum(data,
                                             calculate_checksum(data, 0))]]
    /\ UNCHANGED <<routes, regLog>>
    /\ RouterFrame

NextHeader ==
    \/ \E h \in Headers : HeaderValidate(h)
    \/ \E h \in Headers : HeaderRoundTrip(h)
    \/ \E id \in BuildIds : \E protocol \in {IPPROTO_ICMP, IPPROTO_UDP} :
          \E dst \in {HostN, Localhost} : \E len \in BuildLengths :
             HeaderBuild(id, protocol, Us, dst, len)
    \/ \E head \in ChecksumHeads : \E zeros \in ChecksumZeros :
          ChecksumTwice(Buf(head, zeros))

SpecHeader ==
    InitRouter /\ [][NextHeader]_vars

----------------------------------------------------------------------------
(* The interface specification: callers of Ipv4Interface::new with unicast *)
(* addresses and netmasks of every prefix length class.                    *)

\* unicast addresses, with low and high final octets
IfaceUnicasts ==
    {<<127, 0, 0, 1>>, <<192, 0, 2, 2>>, <<192, 0, 0, 1>>, <<192, 0, 1, 1>>,
     <<10, 1, 2, 130>>, <<172, 16, 5, 77>>, <<192, 168, 255, 254>>,
     <<1, 2, 3, 4>>, <<100, 64, 0, 200>>, <<203, 0, 113, 9>>}

\* netmasks of the prefix lengths 0, 8, 12, 16, 20, 24, 25, 26, 28, 30, 31
\* and 32
IfaceNetmasks ==
    {<<0, 0, 0, 0>>, <<255, 0, 0, 0>>, <<255, 240, 0, 0>>, <<255, 255, 0, 0>>,
     <<255, 255, 240, 0>>, <<255, 255, 255, 0>>, <<255, 255, 255, 128>>,
     <<255, 255, 255, 192>>, <<255, 255, 255, 240>>, <<255, 255, 255, 252>>,
     <<255, 255, 255, 254>>, <<255, 255, 255, 255>>}

\* a caller of Ipv4Interface::new on a null device
InterfaceNew(unicast, netmask) ==
    /\ last' = [NoOp EXCEPT
                  !.op = "interface_new", !.arg = <<unicast, netmask>>,
                  !.ret = Ipv4Interface_new(unicast, netmask, "null")]
    /\ UNCHANGED <<routes, regLog>>
    /\ RouterFrame

NextIface ==
    \E unicast \in IfaceUnicasts : \E netmask \in IfaceNetmasks :
        InterfaceNew(unicast, netmask)

SpecIface ==
    InitRouter /\ [][NextIface]_vars

----------------------------------------------------------------------------
(* The UDP specification: applications bind endpoints (bind, udp.rs) on an *)
(* empty table and on one that other applications left two free slots in,  *)
(* and datagrams of a peer reach recv (udp.rs).                             *)

BindEndpoints ==
    {[address |-> a, port |-> p] : a \in {IPV4_ANY, Us, Localhost},
                                   p \in {8000, 8001}}

\* the table after n binds of the unspecified address to the ports from
\* 9001 on
RECURSIVE BoundBefore(_)
BoundBefore(n) ==
    IF n = 0 THEN [i \in 1..UDP_PCB_LENGTH |-> None]
    ELSE udp_bind(BoundBefore(n - 1),
                  [address |-> IPV4_ANY, port |-> 9000 + n]).pcbs

InitUdp ==
    /\ InitDevices
    /\ tapRx = <<>>
    /\ protoQueue = [t \in {ETHERTYPE_IPV4, ETHERTYPE_ARP} |-> <<>>]
    /\ arpCache = <<>>
    /\ idNext = 0
    /\ nBuilt = 0
    /\ irq = [s \in {INTR_IRQ_LOOPBACK, INTR_IRQ_ETHERNET_TAP, INTR_IRQ_L3} |-> 0]
    /\ now = 0
    /\ panicked = FALSE
    /\ nArrived = 0
    /\ nCalls = 0
    /\ enqLog = [t \in {ETHERTYPE_IPV4, ETHERTYPE_ARP} |-> <<>>]
    /\ deqLog = [t \in {ETHERTYPE_IPV4, ETHERTYPE_ARP} |-> <<>>]
    /\ routes = InitRoutes
    /\ regLog = InitRegistered
    /\ pcbs \in {BoundBefore(0), BoundBefore(UDP_PCB_LENGTH - 2)}
    /\ threads = Started
    /\ last = NoOp

\* what a call on the bind table leaves alone
UdpFrame ==
    UNCHANGED <<flags, driver, hwAddr, loQueue, tapRx, protoQueue, arpCache,
                idNext, nBuilt, irq, now, panicked, nArrived, nCalls, enqLog,
                deqLog, routes, regLog, threads>>

\* an application calls bind (udp.rs)
UdpBind(endpoint) ==
    /\ ~panicked
    /\ pcbs' = udp_bind(pcbs, endpoint).pcbs
    /\ last' = [NoOp EXCEPT !.op = "bind", !.arg = <<endpoint, pcbs>>,
                            !.ret = udp_bind(pcbs, endpoint).ret]
    /\ UdpFrame

\* the datagrams ipv4 recv hands to recv (udp.rs): payloads of four and
\* five bytes with the right checksum, and one with a wrong checksum
UdpDatagrams ==
    {[length |-> 12, good |-> TRUE], [length |-> 13, good |-> TRUE],
     [length |-> 12, good |-> FALSE]}

UdpRecv_done(r, g, src, dst, sport, dport) ==
    /\ Commit(r.w)
    /\ last' = Op("udp_recv", "none",
                  <<[src |-> src, dst |-> dst, sport |-> sport, dport |-> dport,
                     length |-> g.length, good |-> g.good,
                     data |-> PeerUdp(src, dst, sport, dport, g.length,
                                      g.length, g.good)], pcbs>>, r)

\* recv (udp.rs) of a datagram from src:sport to dst:dport
UdpRecv(g, src, dst, sport, dport) ==
    /\ ~panicked
    /\ nCalls < MaxCalls
    /\ nCalls' = nCalls + 1
    /\ UdpRecv_done(udp_recv(World, PeerUdp(src, dst, sport, dport, g.length,
                                            g.length, g.good), src, dst),
                    g, src, dst, sport, dport)
    /\ UNCHANGED <<now, nArrived, routes, regLog>>

NextUdp ==
    \/ \E endpoint \in BindEndpoints : UdpBind(endpoint)
    \/ \E g \in UdpDatagrams : \E dst \in {Us, Localhost} :
          \E dport \in {8000, 9} : UdpRecv(g, HostN, dst, 4000, dport)

SpecUdp ==
    InitUdp /\ [][NextUdp]_vars

----------------------------------------------------------------------------
(* Properties. *)

\* C1: open on a DOWN device whose driver open succeeds sets UP; open on an
\* UP device returns an error and leaves the flags unchanged; close on an UP
\* device clears UP; close on a DOWN device returns an error and leaves the
\* flags unchanged.
C1_OpenClose ==
    [][\A d \in AllDev :
        /\ (last'.op = "open" /\ last'.dev = d) =>
              /\ is_up(flags[d]) =>
                    last'.ret = "DeviceAlreadyUp" /\ flags' = flags
              /\ (~is_up(flags[d]) /\ (d = "eth" => last'.arg[1])) =>
                    last'.ret = "Ok" /\ is_up(flags'[d])
        /\ (last'.op = "close" /\ last'.dev = d) =>
              /\ is_up(flags[d]) =>
                    last'.ret = "Ok" /\ ~is_up(flags'[d])
              /\ ~is_up(flags[d]) =>
                    last'.ret = "DeviceAlreadyDown" /\ flags' = flags
      ]_vars

\* C1 witness: the TAP device was opened (its driver handle and hardware
\* address are set), closed again, and a further close was refused.
C1_Witness ==
    /\ last.op = "close" /\ last.dev = "eth" /\ last.ret = "DeviceAlreadyDown"
    /\ driver["eth"] = "Tap" /\ hwAddr["eth"] = MacM
    /\ ~is_up(flags["eth"])

\* C2: a driver's transmit is invoked only while its device is UP and only
\* with data no longer than the device's MTU; a device send while DOWN or
\* with data longer than the MTU returns an error and invokes no driver.
C2_TransmitGuard ==
    /\ \A i \in 1..Len(last.tx) :
          last.tx[i].up /\ BLen(last.tx[i].data) <= Mtu(last.tx[i].dev)
    /\ (last.op = "send" /\ (~is_up(flags[last.dev]) \/ last.arg[1] > Mtu(last.dev)))
          => last.ret \in {"DeviceNotUp", "TooLong"} /\ last.tx = <<>>

\* C2 witness: a send of exactly MTU bytes on the UP TAP device reached the
\* driver.
C2_Witness ==
    /\ last.op = "send" /\ last.dev = "eth" /\ last.ret = "Ok"
    /\ last.arg[1] = Mtu("eth") /\ Len(last.tx) = 1

\* C2 witness of the refusals: a send on a DOWN device was refused.
C2_WitnessRefused ==
    /\ last.op = "send" /\ last.ret = "DeviceNotUp" /\ last.tx = <<>>


\* what the claims below read from the ghost records

\* the driver call t put an ARP request for target on the wire of device
\* d, to the link broadcast address
IsArpRequestFor(t, d, target) ==
    /\ t.dev = d /\ t.ty = ETHERTYPE_ARP /\ t.dst = MAC_ADDRESS_BROADCAST
    /\ BLen(t.data) = ARP_MESSAGE_SIZE
    /\ LET m == ArpMessage_from(t.data)
       IN  /\ m.header.htype = ARP_HARDWARE_TYPE_ETHERNET
           /\ m.header.ptype = ETHERTYPE_IPV4
           /\ m.header.oper = ARP_OPERATION_REQUEST
           /\ m.tpa = target

\* the queue entry e is an Ethernet/IPv4 ARP message addressed to the
\* interface it arrived on
IsArpForUs(e) ==
    /\ e.ty = ETHERTYPE_ARP
    /\ BLen(e.data) >= ARP_MESSAGE_SIZE
    /\ LET m == ArpMessage_from(e.data)
       IN  /\ m.header.htype = ARP_HARDWARE_TYPE_ETHERNET
           /\ m.header.ptype = ETHERTYPE_IPV4
           /\ m.header.hlen = MAC_ADDRESS_LEN
           /\ m.header.plen = ARP_PLEN_IPV4
           /\ m.tpa = Iface(e.interface).unicast

\* the send call s went by a route with a gateway on a device that needs ARP
ViaGateway(s) ==
    LET lk == Ipv4Router_lookup(routes, s.dst)
    IN  /\ lk # None
        /\ lk[1].next_hop # None
        /\ need_arp(flags[Iface(lk[1].interface).device])

GatewayOf(s) ==
    Ipv4Router_lookup(routes, s.dst)[1].next_hop[1]

\* the driver call t carried an IPv4 packet
IsIpv4Frame(t) ==
    t.ty = ETHERTYPE_IPV4

\* C3: on each protocol queue the entries are handed to the protocol's
\* receive processing in the order in which the device handler enqueued
\* them, each at most once: the sequence of dequeued entries is always a
\* prefix of the sequence of enqueued entries, and what is still queued is
\* the rest of it.
C3_Fifo ==
    \A t \in {ETHERTYPE_IPV4, ETHERTYPE_ARP} :
        /\ Len(deqLog[t]) <= Len(enqLog[t])
        /\ deqLog[t] = SubSeq(enqLog[t], 1, Len(deqLog[t]))
        /\ [i \in 1..Len(protoQueue[t]) |-> protoQueue[t][i].seq]
              = SubSeq(enqLog[t], Len(deqLog[t]) + 1, Len(enqLog[t]))
        /\ \A i, j \in 1..Len(enqLog[t]) : i < j => enqLog[t][i] # enqLog[t][j]

\* C3 witness: one L3 cycle handed over two entries that were queued
\* together on the same queue.
C3_Witness ==
    /\ last.op = "irq_l3"
    /\ \E i, j \in 1..Len(last.elog) :
          /\ i < j
          /\ last.elog[i].ty = last.elog[j].ty
          /\ last.elog[i].seq < last.elog[j].seq

\* C4: when an L3 IRQ cycle returns, every protocol queue is empty (the
\* cycle enqueues nothing, so a queue that was non-empty at its start has
\* been drained), whatever the entries held.
C4_Drained ==
    (last.op = "irq_l3" /\ ~panicked) =>
        \A t \in {ETHERTYPE_IPV4, ETHERTYPE_ARP} : protoQueue[t] = <<>>

\* C5: the L2 and L3 IRQ handlers return normally to the signal loop for
\* every received frame: no handler aborts.
C5_HandlersReturn ==
    /\ ~panicked
    /\ last.op \in {"irq_l2", "irq_l3"} => last.ret = "Ok"

\* C6: a resolve on the UP Ethernet device for a target with no cache entry
\* or an Incomplete one returns Incomplete, sends exactly one ARP request
\* for the target to the link broadcast address and leaves the target's
\* entry Incomplete; this holds on every such call.
C6_ResolveMiss ==
    \A i \in 1..Len(last.rlog) :
        LET c == last.rlog[i]
        IN  (DevType(c.dev) = "Ethernet" /\ c.before \in {"Absent", "Incomplete"}) =>
                /\ c.ret = "Ok"
                /\ c.state = "Incomplete"
                /\ Len(c.tx) = 1
                /\ IsArpRequestFor(c.tx[1], c.dev, c.target)
                /\ c.after = "Incomplete"

\* C6 witness: a second resolve of a still unanswered target sent a request
\* again.
C6_Witness ==
    /\ last.op = "resolve"
    /\ Len(last.rlog) = 1
    /\ last.rlog[1].before = "Incomplete"
    /\ last.rlog[1].state = "Incomplete"
    /\ Len(last.tx) = 1
    /\ IsArpRequestFor(last.tx[1], "eth", last.rlog[1].target)

\* C7: a resolve for a target whose entry is Resolved(mac) and within the
\* TTL returns Resolved(mac), sends nothing and leaves every entry of the
\* cache as it was; and once an ARP message from (spa, sha) addressed to the
\* interface has been received, the cache answers spa with Resolved(sha).
C7_ResolveHit ==
    /\ \A i \in 1..Len(last.rlog) :
          LET c == last.rlog[i]
          IN  c.before = "Resolved" =>
                  /\ c.ret = "Ok"
                  /\ c.state = "Resolved"
                  /\ c.mac = c.entry[1].mac
                  /\ c.tx = <<>>
                  /\ c.unchanged
    /\ \A i \in 1..Len(last.elog) :
          LET e == last.elog[i]
          IN  IsArpForUs(e) =>
                  ArpCache_get(e.cacheAfter, ArpMessage_from(e.data).spa)
                     = Some([state |-> "Resolved", mac |-> ArpMessage_from(e.data).sha])

\* C7 witness: the gateway's entry, learnt from its ARP message some time
\* ago, answered a resolve.
C7_Witness ==
    /\ last.op = "resolve"
    /\ Len(last.rlog) = 1
    /\ last.rlog[1].target = Gateway
    /\ last.rlog[1].before = "Resolved"
    /\ last.rlog[1].mac = MacG
    /\ last.tx = <<>>
    /\ now > arpCache[Gateway].timestamp

\* C8: receiving an Ethernet/IPv4 ARP request whose tpa is the receiving
\* interface's unicast address sends exactly one frame on that interface's
\* device, an ARP reply with sha = device MAC, spa = interface unicast,
\* tha = the request's sha, tpa = the request's spa, to the request's sha,
\* and the cache entry for the request's spa becomes Resolved(request's sha).
C8_ArpReply ==
    \A i \in 1..Len(last.elog) :
        LET e == last.elog[i]
            q == ArpMessage_from(e.data)
            d == Iface(e.interface).device
        IN  (IsArpForUs(e) /\ q.header.oper = ARP_OPERATION_REQUEST) =>
                /\ e.ret = "Ok"
                /\ Len(e.tx) = 1
                /\ e.tx[1].dev = d
                /\ e.tx[1].ty = ETHERTYPE_ARP
                /\ e.tx[1].dst = q.sha
                /\ BLen(e.tx[1].data) = ARP_MESSAGE_SIZE
                /\ LET m == ArpMessage_from(e.tx[1].data)
                   IN  /\ m.header.oper = ARP_OPERATION_REPLY
                       /\ m.sha = hwAddr[d]
                       /\ m.spa = Iface(e.interface).unicast
                       /\ m.tha = q.sha
                       /\ m.tpa = q.spa
                /\ q.spa \in DOMAIN e.cacheAfter
                /\ e.cacheAfter[q.spa].state = "Resolved"
                /\ e.cacheAfter[q.spa].mac = q.sha

\* C8 witness: host N's request for our address was answered.
C8_Witness ==
    /\ last.op = "irq_l3"
    /\ \E i \in 1..Len(last.elog) :
          /\ IsArpForUs(last.elog[i])
          /\ ArpMessage_from(last.elog[i].data).header.oper = ARP_OPERATION_REQUEST
          /\ ArpMessage_from(last.elog[i].data).sha = MacN
          /\ Len(last.elog[i].tx) = 1
          /\ last.elog[i].tx[1].dst = MacN
    /\ HostN \in DOMAIN arpCache
    /\ arpCache[HostN].mac = MacN

C9_WitnessFirst ==
    /\ last.op = "ipv4_send"
    /\ Len(last.slog) = 1
    /\ last.slog[1].dst = Remote
    /\ last.slog[1].rlog[1].before = "Absent"
    /\ Len(last.tx) = 1
    /\ IsArpRequestFor(last.tx[1], "eth", Gateway)

C10_DroppedOnIncomplete ==
    /\ \A i \in 1..Len(last.slog) :
          LET s == last.slog[i]
          IN  (Len(s.rlog) = 1 /\ s.rlog[1].ret = "Ok"
               /\ s.rlog[1].state = "Incomplete") =>
                  /\ s.ret = "Ok"
                  /\ \A k \in 1..Len(s.tx) : ~IsIpv4Frame(s.tx[k])
    /\ \A k \in 1..Len(last.tx) :
          IsIpv4Frame(last.tx[k]) =>
              \E i \in 1..Len(last.slog) :
                  LET s == last.slog[i]
                  IN  /\ \E n \in 1..Len(s.tx) : s.tx[n] = last.tx[k]
                      /\ Ipv4Header_from(last.tx[k].data).identification = s.idBefore
                      /\ s.idAfter = (s.idBefore + 1) % 65536
                      /\ \A n \in 1..Len(s.rlog) : s.rlog[n].state = "Resolved"

\* C10 witness: a send found the next hop unresolved, returned success and
\* put only the ARP request on the wire.
C10_Witness ==
    /\ last.op = "ipv4_send"
    /\ last.ret = "Ok"
    /\ Len(last.slog) = 1
    /\ Len(last.slog[1].rlog) = 1
    /\ last.slog[1].rlog[1].state = "Incomplete"
    /\ last.slog[1].idAfter = last.slog[1].idBefore + 1
    /\ \A k \in 1..Len(last.tx) : ~IsIpv4Frame(last.tx[k])

\* C10 witness of the later time: the ARP answer for the next hop of a
\* dropped packet was processed, and the step put no IPv4 frame on the wire.
C10_WitnessLater ==
    /\ last.op = "irq_l3"
    /\ idNext >= 1
    /\ \E i \in 1..Len(last.elog) :
          IsArpForUs(last.elog[i]) /\ ArpMessage_from(last.elog[i].data).spa = Gateway
    /\ \A k \in 1..Len(last.tx) : ~IsIpv4Frame(last.tx[k])


\* the identification field of the IPv4 packet the driver call t carried
IdentificationOf(t) ==
    BE16(t.data, 4)

\* C11: the identification counter equals, modulo 2^16, the number of IPv4
\* sends (of callers and of the IRQ handlers) that reached the header-build
\* step. A send turned away for no route, an invalid source or a packet too
\* long leaves the counter alone and hands nothing to a driver; every other
\* send advances it by exactly 1, whether its packet is then transmitted,
\* dropped on an Incomplete resolution or refused by the device; the packets
\* carry the counter's value before the send, the sends of one handler draw
\* consecutive values, and 65535 is followed by 0.
C11_IdCounter ==
    /\ idNext = nBuilt % 65536
    /\ \A k \in 1..Len(last.slog) :
          /\ last.slog[k].ret \in PreBuildErrors =>
                /\ last.slog[k].idAfter = last.slog[k].idBefore
                /\ last.slog[k].tx = <<>>
          /\ last.slog[k].ret \notin PreBuildErrors =>
                last.slog[k].idAfter = (last.slog[k].idBefore + 1) % 65536
          /\ \A j \in 1..Len(last.slog[k].tx) :
                IsIpv4Frame(last.slog[k].tx[j]) =>
                   IdentificationOf(last.slog[k].tx[j]) = last.slog[k].idBefore
          /\ k < Len(last.slog) => last.slog[k + 1].idBefore = last.slog[k].idAfter
    /\ last.slog # <<>> => last.slog[Len(last.slog)].idAfter = idNext

\* a send wrapped the counter from 65535 to 0 and its packet went out with
\* identification 65535
C11_Witness ==
    /\ nBuilt = 65536
    /\ idNext = 0
    /\ last.slog # <<>>
    /\ last.slog[1].idBefore = 65535
    /\ \E j \in 1..Len(last.slog[1].tx) :
          /\ IsIpv4Frame(last.slog[1].tx[j])
          /\ IdentificationOf(last.slog[1].tx[j]) = 65535

\* a send was turned away by a check after another had built its header
C11_WitnessRejected ==
    /\ nBuilt > 0
    /\ last.slog # <<>>
    /\ last.slog[1].ret \in PreBuildErrors
    /\ idNext = last.slog[1].idBefore

\* a caller's send built its header and was dropped on an Incomplete
\* resolution: no IPv4 packet reached the driver
C11_WitnessDropped ==
    /\ last.op = "ipv4_send"
    /\ last.ret = "Ok"
    /\ last.slog[1].idAfter = (last.slog[1].idBefore + 1) % 65536
    /\ last.slog[1].rlog # <<>>
    /\ \A j \in 1..Len(last.tx) : ~IsIpv4Frame(last.tx[j])

\* a caller's send built its header and was refused by the device, which
\* was down
C11_WitnessRefused ==
    /\ last.op = "ipv4_send"
    /\ last.ret = "DeviceNotUp"
    /\ last.slog[1].idAfter = (last.slog[1].idBefore + 1) % 65536
    /\ last.tx = <<>>

\* the L3 handler sent an echo reply after a caller's send
C11_WitnessHandler ==
    /\ last.op = "irq_l3"
    /\ last.slog # <<>>
    /\ last.slog[1].idBefore > 0
    /\ last.slog[1].ret = "Ok"


\* the route r matches the destination dst
Matches(r, dst) ==
    IpAnd(dst, r.netmask) = r.network

\* the registrations, by their place in the order of the calls, whose route
\* matches dst
MatchingOf(dst) ==
    {i \in 1..Len(regLog) : Matches(regLog[i], dst)}

\* C12: for every router content built by register and register_default
\* calls and every destination, lookup returns none iff no route matches
\* (dst & netmask == network); otherwise it returns a matching route whose
\* netmask is numerically largest among the matching routes and, among the
\* matching routes with that netmask, the one that was inserted first.
C12_Lookup ==
    \A dst \in RouterDsts :
       /\ Ipv4Router_lookup(routes, dst) = None <=> MatchingOf(dst) = {}
       /\ Ipv4Router_lookup(routes, dst) # None =>
             \E i \in MatchingOf(dst) :
                /\ regLog[i] = Ipv4Router_lookup(routes, dst)[1]
                /\ \A j \in MatchingOf(dst) :
                      /\ ~IpGt(regLog[j].netmask, regLog[i].netmask)
                      /\ regLog[j].netmask = regLog[i].netmask => i <= j


\* the route register(network, ifc) adds
RouteOf(network, ifc) ==
    [network |-> network, netmask |-> Iface(ifc).netmask, interface |-> ifc,
     next_hop |-> None]

\* the router holds exactly the two routes a and b, registered in either
\* order
HoldsRoutes(a, b) ==
    /\ Len(routes) = 2
    /\ {routes[1], routes[2]} = {a, b}

IsDefault(r) ==
    r.network = IPV4_ANY /\ r.netmask = IPV4_ANY /\ r.next_hop # None

\* the register_default calls made so far, by their place in regLog
DefaultsOf ==
    {i \in 1..Len(regLog) : IsDefault(regLog[i])}

\* C14: in a router that holds a default route and any other routes,
\* registered in any order, lookup(dst) returns the default route iff no
\* other route matches dst; the default route it returns has the gateway
\* of the register_default call as its next_hop.
C14_Default ==
    Cardinality(DefaultsOf) = 1 =>
       \A dst \in RouterDsts :
          /\ Ipv4Router_lookup(routes, dst) # None
          /\ IsDefault(Ipv4Router_lookup(routes, dst)[1]) <=>
                ~\E i \in 1..Len(routes) :
                     ~IsDefault(routes[i]) /\ Matches(routes[i], dst)
          /\ IsDefault(Ipv4Router_lookup(routes, dst)[1]) =>
                /\ Ipv4Router_lookup(routes, dst)[1].next_hop \in
                      {Some(g) : g \in RouterGateways}
                /\ Ipv4Router_lookup(routes, dst)[1] =
                      regLog[CHOOSE i \in DefaultsOf : TRUE]

\* the default route was registered before two other routes; a lookup of a
\* destination none of them matches returned it
C14_Witness ==
    /\ Len(regLog) = 3
    /\ DefaultsOf = {1}
    /\ last.op = "lookup"
    /\ last.arg = <<(<<8, 8, 8, 8>>)>>
    /\ last.ret = Some(regLog[1])
    /\ last.ret[1].next_hop = Some(<<192, 0, 0, 1>>)

\* the default route was registered after a route that matches the
\* destination looked up, which was returned
C14_WitnessOther ==
    /\ Len(regLog) = 2
    /\ DefaultsOf = {2}
    /\ last.op = "lookup"
    /\ last.ret = Some(regLog[1])
    /\ Matches(regLog[2], last.arg[1])


\* the queue entry e is an IPv4 packet with a valid header whose destination
\* is none of the addresses its interface accepts
IsForeignIpv4(e) ==
    /\ e.ty = ETHERTYPE_IPV4
    /\ Ipv4Header_try_from(e.data) = "Ok"
    /\ Ipv4Header_validate(Ipv4Header_from(e.data)) = "Ok"
    /\ Ipv4Header_from(e.data).dst \notin
          {Iface(e.interface).unicast, Iface(e.interface).broadcast, IPV4_BROADCAST}

\* C15: IPv4 receive of a packet with a valid header whose dst is none of
\* the interface unicast, the interface broadcast and 255.255.255.255
\* returns success, invokes no transport handler, hands no frame to a
\* driver and leaves the ARP cache, the identification counter and the UDP
\* receive queues as they were.
C15_ForeignDropped ==
    \A k \in 1..Len(last.elog) :
       IsForeignIpv4(last.elog[k]) =>
          /\ last.elog[k].ret = "Ok"
          /\ last.elog[k].handlers = <<>>
          /\ last.elog[k].tx = <<>>
          /\ last.elog[k].cacheAfter = last.elog[k].cacheBefore
          /\ last.elog[k].idAfter = last.elog[k].idBefore
          /\ last.elog[k].pcbsAfter = last.elog[k].pcbsBefore

\* the L3 handler processed an echo request for another host while a UDP
\* endpoint was bound
C15_Witness ==
    /\ last.op = "irq_l3"
    /\ \E k \in 1..Len(last.elog) :
          /\ IsForeignIpv4(last.elog[k])
          /\ Ipv4Header_from(last.elog[k].data).protocol = IPPROTO_ICMP
          /\ last.elog[k].ret = "Ok"
    /\ \E i \in 1..UDP_PCB_LENGTH : pcbs[i] # None


\* the ones' complement sum of the 16-bit words of the serialized header h
\* is 0xffff: its Internet checksum is 0
HeaderSumsToZero(h) ==
    Fold16(WordSum(Ipv4Header_to_bytes(h), 1)) = 65535

\* the MF flag (bit 13 of flags_fragment_offset) of the header h
MoreFragments(h) ==
    (h.ffo \div 8192) % 2

\* the fragment offset (the low 13 bits) of the header h
FragmentOffset(h) ==
    h.ffo % 8192

\* C16: validate succeeds iff the version is 4, the IHL is in [5, 15), the
\* MF flag is 0, the fragment offset is 0 and the Internet checksum over the
\* header bytes is 0; a header with MF = 1 or a fragment offset other than
\* 0 is rejected whatever its other fields.
C16_Validate ==
    last.op = "validate" =>
       /\ last.ret = "Ok" <=>
             /\ last.arg[1].vhl \div 16 = 4
             /\ last.arg[1].vhl % 16 \in 5..14
             /\ MoreFragments(last.arg[1]) = 0
             /\ FragmentOffset(last.arg[1]) = 0
             /\ HeaderSumsToZero(last.arg[1])
       /\ (MoreFragments(last.arg[1]) = 1 \/ FragmentOffset(last.arg[1]) # 0) =>
             last.ret # "Ok"

\* validate accepted a header with 14 words and the DF flag
C16_Witness ==
    /\ last.op = "validate"
    /\ last.ret = "Ok"
    /\ last.arg[1].vhl = 78
    /\ last.arg[1].ffo = 16384

\* validate refused a header whose only fault is the MF flag
C16_WitnessFragment ==
    /\ last.op = "validate"
    /\ last.ret # "Ok"
    /\ last.arg[1].vhl = IPV4_VHL
    /\ last.arg[1].ffo = 8192
    /\ HeaderSumsToZero(last.arg[1])

\* C17: for every valid header h, parsing the bytes h serializes to gives a
\* header equal to h field by field on which validate succeeds; and every
\* header create_ip_header builds for the send path parses to the fields it
\* was built from and passes validate.
C17_RoundTrip ==
    /\ (last.op = "round_trip" /\ Ipv4Header_validate(last.arg[1]) = "Ok") =>
          /\ last.ret.parse = "Ok"
          /\ \A f \in DOMAIN last.arg[1] : last.ret.header[f] = last.arg[1][f]
          /\ DOMAIN last.ret.header = DOMAIN last.arg[1]
          /\ Ipv4Header_validate(last.ret.header) = "Ok"
    /\ last.op = "build" =>
          /\ BLen(last.ret) = IPV4_HEADER_MIN_LENGTH
          /\ Ipv4Header_try_from(last.ret) = "Ok"
          /\ Ipv4Header_validate(Ipv4Header_from(last.ret)) = "Ok"
          /\ Ipv4Header_from(last.ret).identification = last.arg[1]
          /\ Ipv4Header_from(last.ret).protocol = last.arg[2]
          /\ Ipv4Header_from(last.ret).src = last.arg[3]
          /\ Ipv4Header_from(last.ret).dst = last.arg[4]
          /\ Ipv4Header_from(last.ret).total_length =
                IPV4_HEADER_MIN_LENGTH + last.arg[5]

\* a valid header of 1500 bytes total with the DF flag went through
\* to_bytes and try_from
C17_Witness ==
    /\ last.op = "round_trip"
    /\ Ipv4Header_validate(last.arg[1]) = "Ok"
    /\ last.arg[1].total_length = 1500
    /\ last.arg[1].ffo = 16384
    /\ last.ret.header = last.arg[1]

\* create_ip_header built the header of the longest packet with the last
\* identification
C17_WitnessBuilt ==
    /\ last.op = "build"
    /\ last.arg[1] = 65535
    /\ last.arg[5] = 65515
    /\ Ipv4Header_from(last.ret).total_length = 65535


\* C18: for every byte sequence data of at most 2^15 bytes, of even or odd
\* length, calculate_checksum(data, 0) returns a sum and
\* calculate_checksum(data, sum) returns 0.
C18_Checksum ==
    last.op = "checksum" =>
       /\ ~last.ret.panic
       /\ last.ret.again = 0


\* the slots of the table ps that hold a PCB
Occupied(ps) ==
    {i \in 1..Len(ps) : ps[i] # None}

\* the local endpoints a and b collide: the same port, and equal addresses
\* or an unspecified one
Collide(a, b) ==
    /\ a.port = b.port
    /\ (a.address = b.address \/ a.address = IPV4_ANY \/ b.address = IPV4_ANY)

\* the table ps holds a PCB bound to the address and port
Holds(ps, address, port) ==
    \E i \in Occupied(ps) : ps[i][1].local = [address |-> address, port |-> port]

\* C19: after any sequence of bind calls no two PCBs of the table collide.
\* A bind of (A, P) to a table that holds (ANY, P) fails, a bind of (ANY, P)
\* to a table that holds (A, P) fails, both leaving the table as it was; a
\* bind of (A1, P) to a table that holds (A2, P), A1 # A2 and neither
\* unspecified, and no PCB that (A1, P) collides with, takes the first free
\* slot; a bind succeeds exactly when the endpoint collides with no PCB and
\* a slot is free.
C19_Bind ==
    /\ \A i, j \in Occupied(pcbs) :
          i # j => ~Collide(pcbs[i][1].local, pcbs[j][1].local)
    /\ last.op = "bind" =>
          /\ (/\ last.arg[1].address # IPV4_ANY
              /\ Holds(last.arg[2], IPV4_ANY, last.arg[1].port)) =>
                (last.ret = None /\ pcbs = last.arg[2])
          /\ (/\ last.arg[1].address = IPV4_ANY
              /\ \E i \in Occupied(last.arg[2]) :
                    last.arg[2][i][1].local.port = last.arg[1].port) =>
                (last.ret = None /\ pcbs = last.arg[2])
          /\ (/\ last.arg[1].address # IPV4_ANY
              /\ \E i \in Occupied(last.arg[2]) :
                    /\ last.arg[2][i][1].local.port = last.arg[1].port
                    /\ last.arg[2][i][1].local.address
                          \notin {IPV4_ANY, last.arg[1].address}
              /\ \A i \in Occupied(last.arg[2]) :
                    ~Collide(last.arg[2][i][1].local, last.arg[1])
              /\ Occupied(last.arg[2]) # 1..UDP_PCB_LENGTH) =>
                (/\ last.ret # None
                 /\ last.arg[2][last.ret[1] + 1] = None
                 /\ \A j \in 1..last.ret[1] : last.arg[2][j] # None
                 /\ pcbs[last.ret[1] + 1][1].local = last.arg[1]
                 /\ \A j \in 1..UDP_PCB_LENGTH :
                       j # last.ret[1] + 1 => pcbs[j] = last.arg[2][j])
          /\ last.ret # None <=>
                /\ \A i \in Occupied(last.arg[2]) :
                      ~Collide(last.arg[2][i][1].local, last.arg[1])
                /\ Occupied(last.arg[2]) # 1..UDP_PCB_LENGTH

\* 192.0.2.2:8000 was bound to a table that held 127.0.0.1:8000
C19_Witness ==
    /\ last.op = "bind"
    /\ last.arg[1] = [address |-> Us, port |-> 8000]
    /\ Holds(last.arg[2], Localhost, 8000)
    /\ last.ret # None
    /\ Holds(pcbs, Us, 8000)

\* a bind of 192.0.2.2:8000 to a table that held 0.0.0.0:8000 failed
C19_WitnessAfterAny ==
    /\ last.op = "bind"
    /\ last.arg[1] = [address |-> Us, port |-> 8000]
    /\ Holds(last.arg[2], IPV4_ANY, 8000)
    /\ last.ret = None

\* a bind of 0.0.0.0:8000 to a table that held 192.0.2.2:8000 failed
C19_WitnessAny ==
    /\ last.op = "bind"
    /\ last.arg[1] = [address |-> IPV4_ANY, port |-> 8000]
    /\ Holds(last.arg[2], Us, 8000)
    /\ last.ret = None

\* a bind of an endpoint that collides with no PCB failed on a full table
C19_WitnessFull ==
    /\ last.op = "bind"
    /\ last.ret = None
    /\ Occupied(last.arg[2]) = 1..UDP_PCB_LENGTH
    /\ \A i \in Occupied(last.arg[2]) :
          ~Collide(last.arg[2][i][1].local, last.arg[1])


\* the slots of the table ps whose PCB the destination matches
Matching(ps, address, port) ==
    {i \in Occupied(ps) :
        Collide(ps[i][1].local, [address |-> address, port |-> port])}

\* C20: recv of a datagram with valid length and checksum from src:sp to
\* dst:dp, when a PCB matches (dst, dp), appends exactly one entry to that
\* PCB's receive queue, with the foreign endpoint (src, sp) and the
\* datagram's payload, and modifies no other PCB.
C20_Recv ==
    (/\ last.op = "udp_recv"
     /\ last.arg[1].good
     /\ Matching(last.arg[2], last.arg[1].dst, last.arg[1].dport) # {}) =>
       /\ last.ret = "Ok"
       /\ \E i \in Matching(last.arg[2], last.arg[1].dst, last.arg[1].dport) :
             /\ pcbs[i][1].queue =
                   Append(last.arg[2][i][1].queue,
                          [foreign |-> [address |-> last.arg[1].src,
                                        port |-> last.arg[1].sport],
                           data |-> BFrom(last.arg[1].data, UDP_HEADER_SIZE)])
             /\ pcbs[i][1].local = last.arg[2][i][1].local
             /\ \A j \in 1..UDP_PCB_LENGTH : j # i => pcbs[j] = last.arg[2][j]


\* the driver call t carried a UDP datagram in an IPv4 packet
IsUdpFrame(t) ==
    /\ IsIpv4Frame(t)
    /\ Ipv4Header_from(t.data).protocol = IPPROTO_UDP

\* C21: every datagram that send (udp.rs) hands to a driver validates under
\* recv (udp.rs) called with the source and destination addresses of the
\* IPv4 header that carries it: recv accepts its length and its
\* pseudo-header checksum, whatever the source endpoint, the unspecified
\* address included.
C21_Datagram ==
    last.op = "udp_send" =>
       \A k \in 1..Len(last.tx) :
          IsUdpFrame(last.tx[k]) =>
             udp_recv(World, BFrom(last.tx[k].data, IPV4_HEADER_MIN_LENGTH),
                      Ipv4Header_from(last.tx[k].data).src,
                      Ipv4Header_from(last.tx[k].data).dst).ret
                \in {"Ok", "NoSocket"}


\* the queue entry e is an IPv4 packet that recv (ipv4.rs) hands to the ICMP
\* handler, and its payload is an Echo message with a whole header
IsEcho(e) ==
    /\ e.ty = ETHERTYPE_IPV4
    /\ Ipv4Header_try_from(e.data) = "Ok"
    /\ Ipv4Header_validate(Ipv4Header_from(e.data)) = "Ok"
    /\ Ipv4Header_from(e.data).dst \in
          {Iface(e.interface).unicast, Iface(e.interface).broadcast, IPV4_BROADCAST}
    /\ Ipv4Header_from(e.data).protocol = IPPROTO_ICMP
    /\ BLen(e.data) >= header_length(Ipv4Header_from(e.data)) + ICMP_HEADER_SIZE
    /\ BAt(e.data, header_length(Ipv4Header_from(e.data))) = ICMP_ECHO

\* the ICMP message the packet of the queue entry e carries
IcmpOf(e) ==
    BFrom(e.data, header_length(Ipv4Header_from(e.data)))

\* C22: ICMP receive of an Echo message delivered from the IP source s to
\* the IP destination d makes exactly one call of IPv4 send, of an Echo
\* Reply (type 0) whose code, values and payload equal those of the
\* request, with source d and destination s, and whose checksum over header
\* and payload verifies to 0.
C22_EchoReply ==
    \A k \in 1..Len(last.elog) :
       IsEcho(last.elog[k]) =>
          /\ Len(last.elog[k].sends) = 1
          /\ last.elog[k].sends[1].protocol = IPPROTO_ICMP
          /\ last.elog[k].sends[1].src = Ipv4Header_from(last.elog[k].data).dst
          /\ last.elog[k].sends[1].dst = Ipv4Header_from(last.elog[k].data).src
          /\ BLen(last.elog[k].sends[1].data) = BLen(IcmpOf(last.elog[k]))
          /\ BAt(last.elog[k].sends[1].data, 0) = ICMP_ECHO_REPLY
          /\ BAt(last.elog[k].sends[1].data, 1) = BAt(IcmpOf(last.elog[k]), 1)
          /\ Bytes(last.elog[k].sends[1].data, 4, 4) = Bytes(IcmpOf(last.elog[k]), 4, 4)
          /\ BFrom(last.elog[k].sends[1].data, ICMP_HEADER_SIZE)
                = BFrom(IcmpOf(last.elog[k]), ICMP_HEADER_SIZE)
          /\ calculate_checksum(last.elog[k].sends[1].data, 0) = 0


\* the loopback FIFO and the protocol queues are empty and no signal is
\* pending
Quiescent ==
    /\ loQueue = <<>>
    /\ \A ty \in DOMAIN protoQueue : protoQueue[ty] = <<>>
    /\ \A sig \in DOMAIN irq : irq[sig] = 0

\* the L3 handler has just handed one ICMP message of the given type to the
\* ICMP handler, which made n calls of IPv4 send, all transmitted on the
\* loopback device
ConsumedIcmp(ty, n) ==
    /\ last.op = "irq_l3"
    /\ Len(last.elog) = 1
    /\ last.elog[1].ret = "Ok"
    /\ last.elog[1].interface = "lo"
    /\ last.elog[1].handlers = <<"icmp">>
    /\ BAt(last.elog[1].data, IPV4_HEADER_MIN_LENGTH) = ty
    /\ Len(last.elog[1].sends) = n
    /\ Len(last.elog[1].tx) = n
    /\ \A k \in 1..n : last.elog[1].tx[k].dev = "lo"

\* two packets went through the loopback FIFO, the second was consumed
\* without a further packet and the identification counter advanced by 2
EchoDone ==
    /\ ~panicked
    /\ enqLog[ETHERTYPE_IPV4] = <<1, 2>>
    /\ deqLog[ETHERTYPE_IPV4] = <<1, 2>>
    /\ enqLog[ETHERTYPE_ARP] = <<>>
    /\ idNext = 2
    /\ nBuilt = 2
    /\ ConsumedIcmp(ICMP_ECHO_REPLY, 0)

\* C23: after a single ICMP echo send from 127.0.0.1 to 127.0.0.1 the
\* system eventually reaches a quiescent state; the first packet the L3
\* handler takes from the loopback device is the Echo, answered by one
\* packet; and in every quiescent state after the send exactly two packets
\* went through the loopback FIFO, the Echo Reply was consumed without a
\* further packet and the identification counter has advanced by exactly 2.
C23_Echo ==
    /\ (nCalls = 1) ~> Quiescent
    /\ [](nCalls = 1 /\ Quiescent => EchoDone)
    /\ [](last.op = "irq_l3" /\ deqLog[ETHERTYPE_IPV4] = <<1>>
              => ConsumedIcmp(ICMP_ECHO, 1))

\* the scenario ran to its end with the 20-byte payload
C23_Witness ==
    /\ nCalls = 1
    /\ Quiescent
    /\ EchoDone
    /\ BLen(last.elog[1].data) = IPV4_HEADER_MIN_LENGTH + ICMP_HEADER_SIZE + 20
    /\ BAt(last.elog[1].data, IPV4_HEADER_MIN_LENGTH + ICMP_HEADER_SIZE) = 49


\* every device of the list is DOWN
AllDown ==
    \A i \in 1..Len(Devices) : ~is_up(flags[Devices[i]])

\* C24: once the signal loop has taken a terminal signal no L2 or L3 IRQ
\* handler runs any more; the app thread is signalled and ends; the devices
\* are closed only after the app thread has ended, all of them and in list
\* order, so that eventually every device is DOWN; and once a device is
\* closed nothing runs that hands a frame to a device.
C24_Shutdown ==
    /\ [](/\ threads.main # "loop" => last.op \notin {"irq_l2", "irq_l3"}
          /\ threads.main \in {"join", "stop", "exit"}
                => threads.chan = (IF threads.app = "done" THEN 0 ELSE 1)
          /\ threads.main \in {"stop", "exit"} => threads.app = "done"
          /\ threads.closed # <<>> => threads.app = "done"
          /\ threads.main = "exit" => threads.closed = Devices /\ AllDown
          /\ threads.closed # <<>> => last.op = "stop" /\ last.tx = <<>>)
    /\ (threads.main # "loop")
           ~> [](threads.main = "exit" /\ threads.app = "done" /\ AllDown)

\* main returned after the terminal signal was taken with a TAP IRQ still
\* pending and a frame still unread, the L3 handler having made a send
\* before
C24_Witness ==
    /\ threads = [Started EXCEPT !.main = "exit", !.app = "done", !.closed = Devices]
    /\ AllDown
    /\ irq[INTR_IRQ_ETHERNET_TAP] > 0
    /\ tapRx # <<>>
    /\ nBuilt > 0


\* C25: for every list of DOWN devices (the driver open and close
\* succeeding), after run_net every device of the list has the UP flag set
\* and its other flags as before, and after the stop_net that follows every
\* device of the list has the UP flag cleared and the flags it had before
\* run_net; the devices are opened, and closed, in the order of the list.
C25_RunStop ==
    /\ last.op = "run_net" =>
         /\ \A i \in 1..Len(last.arg[1]) :
               /\ is_up(flags[last.arg[1][i]])
               /\ flags[last.arg[1][i]] =
                     BitOr16(last.arg[2][last.arg[1][i]], NET_DEVICE_FLAG_UP)
         /\ last.ret = [result |-> "Ok", order |-> last.arg[1]]
    /\ last.op = "stop_net" =>
         /\ \A i \in 1..Len(last.arg[1]) :
               /\ ~is_up(flags[last.arg[1][i]])
               /\ flags[last.arg[1][i]] = last.arg[2][last.arg[1][i]]
         /\ last.ret = [result |-> "Ok", order |-> last.arg[1]]

\* run_net and then stop_net ran on the list TAP, null, loopback, an order
\* that is not the one of App::new
C25_Witness ==
    /\ last.op = "stop_net"
    /\ last.arg[1] = <<"eth", "null", "lo">>
    /\ last.ret = [result |-> "Ok", order |-> <<"eth", "null", "lo">>]
    /\ \A d \in AllDev : flags[d] = InitFlags(d)
    /\ driver["eth"] = "Tap"


\* the age of the entry the cache holds for ip
Age(ip) ==
    now - arpCache[ip].timestamp

\* C26: the cache answers get(ip) with Resolved(mac) exactly when the entry
\* of ip is Resolved(mac) and younger than 600 s, and with a miss for an
\* absent entry, an Incomplete one and a Resolved one of age 600 s or more;
\* a resolve of a target whose entry has expired leaves the entry Incomplete
\* and sends one new ARP request for it; and every entry a step writes
\* carries the clock of that step as its timestamp.
C26_Cache ==
    /\ [](\A ip \in ResolveTargets \cup {Remote} :
            /\ \A mac \in {MacG, MacN, MacM} :
                  ArpCache_get(arpCache, ip) = Some([state |-> "Resolved", mac |-> mac])
                     <=> /\ ip \in DOMAIN arpCache
                         /\ arpCache[ip].state = "Resolved"
                         /\ arpCache[ip].mac = mac
                         /\ Age(ip) < 600
            /\ (\/ ip \notin DOMAIN arpCache
                \/ arpCache[ip].state = "Incomplete"
                \/ Age(ip) >= 600) => ArpCache_get(arpCache, ip) = None)
    /\ [](\A i \in 1..Len(last.rlog) :
            last.rlog[i].before = "Expired" =>
                /\ last.rlog[i].entry[1].state = "Resolved"
                /\ now - last.rlog[i].entry[1].timestamp >= 600
                /\ last.rlog[i].ret = "Ok"
                /\ last.rlog[i].state = "Incomplete"
                /\ last.rlog[i].after = "Incomplete"
                /\ Len(last.rlog[i].tx) = 1
                /\ IsArpRequestFor(last.rlog[i].tx[1], last.rlog[i].dev,
                                   last.rlog[i].target))
    /\ [][\A ip \in DOMAIN arpCache' :
            (ip \notin DOMAIN arpCache \/ arpCache'[ip] # arpCache[ip])
                => arpCache'[ip].timestamp = now']_vars

\* an entry learnt from the gateway's reply at time 0 is 600 s old: the
\* cache reports a miss for it though it is still Resolved, and a resolve
\* has just replaced another expired entry by an Incomplete one of that time
C26_Witness ==
    /\ now = 600
    /\ Gateway \in DOMAIN arpCache
    /\ arpCache[Gateway] = [state |-> "Resolved", mac |-> MacG, timestamp |-> 0]
    /\ ArpCache_get(arpCache, Gateway) = None
    /\ last.op = "resolve"
    /\ Len(last.rlog) = 1
    /\ last.rlog[1].before = "Expired"
    /\ last.rlog[1].target = HostN
    /\ arpCache[HostN] = [state |-> "Incomplete", mac |-> MAC_ADDRESS_ANY,
                          timestamp |-> 600]


\* the four fields of the header of the message are the supported ones
SupportedArp(data) ==
    /\ BAt(data, 0) = 0 /\ BAt(data, 1) = 1
    /\ BAt(data, 2) = 8 /\ BAt(data, 3) = 0
    /\ BAt(data, 4) = 6
    /\ BAt(data, 5) = 4

\* the message asks for the unicast address of the interface
ForInterface(data, ifc) ==
    Bytes(data, 24, 4) = Iface(ifc).unicast

\* C27: an ARP receive changes the cache or sends a frame only for a message
\* with htype 1, ptype 0x0800, hlen 6 and plen 4 whose tpa is the unicast
\* address of the receiving interface; a message with another htype, ptype,
\* hlen or plen fails with an error, a supported one with another tpa
\* succeeds, and both leave the cache as it was and send no frame.
C27_ArpRecv ==
    \A i \in 1..Len(last.elog) :
        last.elog[i].ty = ETHERTYPE_ARP =>
            /\ ~SupportedArp(last.elog[i].data) =>
                  /\ last.elog[i].ret = "UnsupportedArp"
                  /\ last.elog[i].cacheAfter = last.elog[i].cacheBefore
                  /\ last.elog[i].tx = <<>>
            /\ (/\ SupportedArp(last.elog[i].data)
                /\ ~ForInterface(last.elog[i].data, last.elog[i].interface)) =>
                  /\ last.elog[i].ret = "Ok"
                  /\ last.elog[i].cacheAfter = last.elog[i].cacheBefore
                  /\ last.elog[i].tx = <<>>
            /\ (\/ last.elog[i].cacheAfter # last.elog[i].cacheBefore
                \/ last.elog[i].tx # <<>>) =>
                  /\ SupportedArp(last.elog[i].data)
                  /\ ForInterface(last.elog[i].data, last.elog[i].interface)

\* one L3 cycle handled a request of the gateway, which the cache learnt
\* from, and then a message for the interface's address that is supported
\* but for its protocol address length: an error, the cache as it was
C27_Witness ==
    /\ last.op = "irq_l3"
    /\ Len(last.elog) = 2
    /\ last.elog[1].cacheAfter # last.elog[1].cacheBefore
    /\ Len(last.elog[1].tx) = 1
    /\ BAt(last.elog[2].data, 5) = 16
    /\ BAt(last.elog[2].data, 4) = 6
    /\ BE16(last.elog[2].data, 0) = 1
    /\ BE16(last.elog[2].data, 2) = 2048
    /\ ForInterface(last.elog[2].data, last.elog[2].interface)
    /\ last.elog[2].ret = "UnsupportedArp"
    /\ last.elog[2].cacheBefore # <<>>
    /\ arpCache = last.elog[2].cacheBefore


\* C28: after any sequence of register and register_default calls every
\* route the router holds has a network that is its own network masked by
\* its netmask.
C28_Masked ==
    \A i \in 1..Len(routes) :
        routes[i].network = IpAnd(routes[i].network, routes[i].netmask)


\* the route the router holds for dst, as an Option
RouteFor(dst) ==
    Ipv4Router_lookup(routes, dst)

\* the source src is not one a send to dst over the route may carry
BadSource(route, src, dst) ==
    \/ src = IPV4_ANY /\ dst = IPV4_BROADCAST
    \/ src # IPV4_ANY /\ src # Iface(route.interface).unicast

\* the error the call c of send must fail with, or "None"
MustFail(c) ==
    IF RouteFor(c.dst) = None THEN "NoRoute"
    ELSE IF BadSource(RouteFor(c.dst)[1], c.src, c.dst) THEN "InvalidSource"
    ELSE IF c.len >= Mtu(Iface(RouteFor(c.dst)[1].interface).device)
    THEN "PacketTooLong"
    ELSE "None"

\* C29: an IPv4 send for whose destination there is no route, whose source
\* is invalid (ANY for the destination 255.255.255.255, or neither ANY nor
\* the unicast address of the route's interface) or whose payload is too
\* long returns the error to its caller, hands no frame, IPv4 or ARP, to a
\* device, asks ARP for nothing and leaves the ARP cache and the
\* identification counter as they were.
C29_FailedSend ==
    /\ \A k \in 1..Len(last.slog) :
          /\ MustFail(last.slog[k]) # "None" =>
                last.slog[k].ret = MustFail(last.slog[k])
          /\ last.slog[k].ret \in PreBuildErrors =>
                /\ last.slog[k].ret = MustFail(last.slog[k])
                /\ last.slog[k].tx = <<>>
                /\ last.slog[k].rlog = <<>>
                /\ last.slog[k].cacheUnchanged
                /\ last.slog[k].idAfter = last.slog[k].idBefore
    /\ (last.op = "ipv4_send" /\ MustFail(last.slog[1]) # "None") =>
          /\ last.ret = MustFail(last.slog[1])
          /\ last.tx = <<>>
          /\ idNext = last.slog[1].idBefore

\* a send found no route, after an earlier send had drawn an identification
\* and left an entry in the ARP cache
C29_Witness ==
    /\ last.op = "ipv4_send"
    /\ last.ret = "NoRoute"
    /\ arpCache # <<>>
    /\ idNext > 0
    /\ nBuilt > 0

\* a send with the TAP interface's address as its source was turned away on
\* the loopback route
C29_WitnessSource ==
    /\ last.op = "ipv4_send"
    /\ last.ret = "InvalidSource"
    /\ last.slog[1].src = Us
    /\ last.slog[1].dst = Localhost
    /\ arpCache # <<>>

\* a send of a payload as long as the MTU of the TAP device was turned away
C29_WitnessLength ==
    /\ last.op = "ipv4_send"
    /\ last.ret = "PacketTooLong"
    /\ last.slog[1].len = ETHERNET_PAYLOAD_MAX_SIZE
    /\ arpCache # <<>>
    /\ idNext > 0


\* the route's device needs ARP and dst is no broadcast address
AsksArp(route, dst) ==
    /\ BitAnd16(flags[Iface(route.interface).device], NET_DEVICE_FLAG_NEED_ARP) # 0
    /\ dst # Iface(route.interface).broadcast
    /\ dst # <<255, 255, 255, 255>>

\* the address ARP is asked for on the route
Target(route, dst) ==
    IF route.next_hop = <<>> THEN dst ELSE route.next_hop[1]

C30_WitnessGateway ==
    /\ last.op = "ipv4_send"
    /\ last.slog[1].dst = Remote
    /\ Len(last.slog[1].rlog) = 1
    /\ last.slog[1].rlog[1].target = Gateway

\* a caller's send to an on-link host asked ARP for that host and went out
\* to the hardware address the cache held
C30_WitnessOnLink ==
    /\ last.op = "ipv4_send"
    /\ last.slog[1].dst = HostN
    /\ Len(last.slog[1].rlog) = 1
    /\ last.slog[1].rlog[1].target = HostN
    /\ Len(last.tx) = 1
    /\ last.tx[1].dst = MacN

----------------------------------------------------------------------------
(* ICMP receive of a message that is not an Echo. *)

\* the queue entry e is an IPv4 packet that recv (ipv4.rs) hands to the ICMP
\* handler, and its payload starts with a type other than Echo
IsIcmpNotEcho(e) ==
    /\ e.ty = ETHERTYPE_IPV4
    /\ Ipv4Header_try_from(e.data) = "Ok"
    /\ Ipv4Header_validate(Ipv4Header_from(e.data)) = "Ok"
    /\ Ipv4Header_from(e.data).dst \in
          {Iface(e.interface).unicast, Iface(e.interface).broadcast, IPV4_BROADCAST}
    /\ Ipv4Header_from(e.data).protocol = IPPROTO_ICMP
    /\ BLen(e.data) >= header_length(Ipv4Header_from(e.data)) + ICMP_HEADER_SIZE
    /\ BAt(e.data, header_length(Ipv4Header_from(e.data))) # ICMP_ECHO

\* C31: ICMP receive of a message of any type other than Echo (an Echo
\* Reply or any other type value) returns success, sends no packet and
\* changes neither the identification counter nor the ARP cache.
C31_Ignored ==
    \A k \in 1..Len(last.elog) :
       IsIcmpNotEcho(last.elog[k]) =>
          /\ last.elog[k].ret = "Ok"
          /\ last.elog[k].sends = <<>>
          /\ last.elog[k].tx = <<>>
          /\ last.elog[k].idAfter = last.elog[k].idBefore
          /\ last.elog[k].cacheAfter = last.elog[k].cacheBefore

----------------------------------------------------------------------------
(* The filter of the Ethernet receive. *)

\* the buffer the next read of the TAP fd returns
NextRead ==
    tap_read(Head(tapRx))

\* the frame the next read returns passes both checks of ethernet::recv
Passes ==
    /\ Bytes(NextRead, 0, MAC_ADDRESS_LEN) \in {hwAddr["eth"], MAC_ADDRESS_BROADCAST}
    /\ BE16(NextRead, 12) \in {ETHERTYPE_IPV4, ETHERTYPE_ARP}

\* the step is the L2 handler of the TAP device reading a frame
ReadsFrame ==
    /\ tapRx # <<>>
    /\ last'.op = "irq_l2"
    /\ last'.dev = "eth"

\* C32: on an Ethernet device, a received frame whose destination MAC is
\* neither the device's MAC nor ff:ff:ff:ff:ff:ff, or whose EtherType is
\* neither 0x0800 nor 0x0806, is dropped with an error: no protocol queue
\* changes and the L3 IRQ is not raised; a frame that passes both checks is
\* appended, with the device's interface, to the queue of its EtherType and
\* to no other.
C32_Filter ==
    [][ReadsFrame =>
          /\ tapRx' = Tail(tapRx)
          /\ ~Passes =>
                /\ protoQueue' = protoQueue
                /\ irq'[INTR_IRQ_L3] = irq[INTR_IRQ_L3]
                /\ Len(last'.errs) = 1
          /\ Passes =>
                /\ \A ty \in DOMAIN protoQueue :
                      IF ty = BE16(NextRead, 12)
                      THEN /\ Len(protoQueue'[ty]) = Len(protoQueue[ty]) + 1
                           /\ SubSeq(protoQueue'[ty], 1, Len(protoQueue[ty]))
                                 = protoQueue[ty]
                           /\ protoQueue'[ty][Len(protoQueue'[ty])].data
                                 = BFrom(NextRead, ETHERNET_HEADER_SIZE)
                           /\ protoQueue'[ty][Len(protoQueue'[ty])].interface
                                 = get_interface("eth", "Ipv4")
                      ELSE protoQueue'[ty] = protoQueue[ty]
                /\ last'.errs = <<>>]_vars

\* the L2 handler dropped a frame addressed to another station while an
\* earlier frame waited in a protocol queue
C32_Witness ==
    /\ last.op = "irq_l2"
    /\ last.dev = "eth"
    /\ last.errs = <<"NotForMe">>
    /\ Len(protoQueue[ETHERTYPE_ARP]) = 1
    /\ irq[INTR_IRQ_L3] = 1

\* the L2 handler dropped a frame of an unknown EtherType
C32_WitnessType ==
    /\ last.op = "irq_l2"
    /\ last.dev = "eth"
    /\ last.errs = <<"UnknownEtherType">>
    /\ irq[INTR_IRQ_L3] = 0

\* the L2 handler took an IPv4 frame behind a waiting ARP frame
C32_WitnessAccepted ==
    /\ last.op = "irq_l2"
    /\ last.dev = "eth"
    /\ last.errs = <<>>
    /\ Len(protoQueue[ETHERTYPE_ARP]) = 1
    /\ Len(protoQueue[ETHERTYPE_IPV4]) = 1
    /\ irq[INTR_IRQ_L3] = 2

----------------------------------------------------------------------------
(* The broadcast address of an interface. *)

\* unicast | ~netmask, octet by octet
HostBitsSet(unicast, netmask) ==
    [i \in 1..4 |-> BitOr16(unicast[i], 255 - netmask[i])]

\* C33: for every unicast address and netmask, the broadcast address of a
\* new IPv4 interface equals unicast | ~netmask as 32-bit values, e.g.
\* 127.255.255.255 for 127.0.0.1 with netmask 255.0.0.0.
C33_Broadcast ==
    last.op = "interface_new" =>
        last.ret.broadcast = HostBitsSet(last.arg[1], last.arg[2])

----------------------------------------------------------------------------
(* The L3 and loopback signals of the device handlers. *)

\* the raises of the signal sig among the events evs
RaisesOf(evs, sig) ==
    {i \in 1..Len(evs) : evs[i] = Event("raise", sig)}

\* the step is a run of NetDevice::handle_isr, by the L2 handler or by a
\* direct caller
IsrStep ==
    last'.op \in {"irq_l2", "handle_isr"}

\* the device recv of the step returns a frame: the loopback FIFO holds
\* one, or the TAP fd holds one that passes the checks of ethernet::recv
Receives ==
    \/ DevType(last'.dev) = "Loopback" /\ loQueue # <<>>
    \/ DevType(last'.dev) = "Ethernet" /\ tapRx # <<>> /\ Passes

\* the protocol type and the payload the device recv of the step returns
Received ==
    IF DevType(last'.dev) = "Loopback"
    THEN [ty |-> ETHERTYPE_IPV4, payload |-> Head(loQueue)]
    ELSE [ty |-> BE16(NextRead, 12), payload |-> BFrom(NextRead, ETHERNET_HEADER_SIZE)]

\* the device of the step has an interface of the family Ipv4
Registered ==
    /\ get_interface(last'.dev, "Ipv4") # "None"
    /\ last'.arg[1] # [registered |-> FALSE]

\* C34: in the device receive handler the L3 IRQ is raised only after the
\* received payload, with the receiving device's interface, has been
\* appended to the queue of the matching protocol, and exactly once per
\* successfully received frame; it is not raised when the device recv
\* fails, on a Null device, or when the device has no interface of the
\* family. The loopback send raises the loopback IRQ only after the frame
\* is in the loopback FIFO.
C34_RaiseAfterPush ==
    /\ [](\A i \in 1..Len(last.ev) :
            /\ last.ev[i] = Event("raise", INTR_IRQ_L3) =>
                  i > 1 /\ last.ev[i - 1].kind = "push"
            /\ last.ev[i].kind = "push" =>
                  i < Len(last.ev) /\ last.ev[i + 1] = Event("raise", INTR_IRQ_L3)
            /\ last.ev[i] = Event("raise", INTR_IRQ_LOOPBACK) =>
                  i > 1 /\ last.ev[i - 1].kind = "fifo"
            /\ last.ev[i].kind = "fifo" =>
                  i < Len(last.ev) /\ last.ev[i + 1] = Event("raise", INTR_IRQ_LOOPBACK))
    /\ [][IsrStep =>
            IF Receives /\ Registered
            THEN /\ Cardinality(RaisesOf(last'.ev, INTR_IRQ_L3)) = 1
                 /\ irq'[INTR_IRQ_L3] = irq[INTR_IRQ_L3] + 1
                 /\ protoQueue'[Received.ty] =
                       Append(protoQueue[Received.ty],
                              [data |-> Received.payload,
                               interface |-> get_interface(last'.dev, "Ipv4"),
                               seq |-> NextSeq(World)])
            ELSE /\ RaisesOf(last'.ev, INTR_IRQ_L3) = {}
                 /\ irq'[INTR_IRQ_L3] = irq[INTR_IRQ_L3]
                 /\ protoQueue' = protoQueue]_vars
    /\ [][last'.op = "send" /\ last'.dev = "lo" =>
            IF last'.ret = "Ok"
            THEN /\ loQueue' = Append(loQueue, last'.arg[1])
                 /\ irq'[INTR_IRQ_LOOPBACK] = irq[INTR_IRQ_LOOPBACK] + 1
            ELSE /\ loQueue' = loQueue
                 /\ irq'[INTR_IRQ_LOOPBACK] = irq[INTR_IRQ_LOOPBACK]]_vars

\* the L2 handler of the TAP device pushed an ARP frame and raised the L3
\* signal after it, a frame from the loopback device waiting in the IPv4
\* queue
C34_Witness ==
    /\ last.op = "irq_l2"
    /\ last.dev = "eth"
    /\ last.ev = <<Event("push", ETHERTYPE_ARP), Event("raise", INTR_IRQ_L3)>>
    /\ Len(protoQueue[ETHERTYPE_IPV4]) = 1
    /\ protoQueue[ETHERTYPE_IPV4][1].interface = "lo"
    /\ irq[INTR_IRQ_L3] = 2

\* the handler of a loopback device with no interface took a frame from
\* the FIFO and raised nothing
C34_WitnessNoInterface ==
    /\ last.op = "handle_isr"
    /\ last.arg = <<[registered |-> FALSE]>>
    /\ last.ret = "NoInterface"
    /\ last.ev = <<>>
    /\ irq[INTR_IRQ_L3] = 0

\* the handler of the Null device returned with frames waiting elsewhere
C34_WitnessNull ==
    /\ last.op = "handle_isr"
    /\ last.dev = "null"
    /\ last.ret = "Ok"
    /\ last.ev = <<>>
    /\ tapRx # <<>>
    /\ loQueue # <<>>

\* the device recv failed: a frame for another station, an empty FIFO
C34_WitnessFailed ==
    /\ last.op \in {"irq_l2", "handle_isr"}
    /\ last.ret = "NotForMe" \/ last.errs = <<"NotForMe">> \/ last.ret = "QueueEmpty"
    /\ last.ev = <<>>

\* the loopback send pushed the frame and raised the loopback signal
C34_WitnessLoopback ==
    /\ last.op = "send"
    /\ last.dev = "lo"
    /\ last.ev = <<Event("fifo", 0), Event("raise", INTR_IRQ_LOOPBACK)>>
    /\ Len(loQueue) = 2
    /\ irq[INTR_IRQ_LOOPBACK] = 2

----------------------------------------------------------------------------
(* IPv4 send through an interface whose device is gone. *)

\* C35: if the device of the selected route's interface no longer exists,
\* IPv4 send returns a DeadDevice error to its caller, sends nothing and
\* leaves the identification counter and the ARP cache unchanged; it does
\* not abort the stack.
C35_DeadDevice ==
    \A k \in 1..Len(last.slog) :
        (/\ RouteFor(last.slog[k].dst) # None
         /\ ~Upgrades(RouteFor(last.slog[k].dst)[1].interface)) =>
            /\ last.slog[k].ret = "DeadDevice"
            /\ ~panicked
            /\ last.slog[k].tx = <<>>
            /\ last.slog[k].rlog = <<>>
            /\ last.slog[k].cacheUnchanged
            /\ last.slog[k].idAfter = last.slog[k].idBefore

----------------------------------------------------------------------------
(* The locks of the two threads. *)

\* the thread t is at a lock() call on the mutex m
Requests(t, m) ==
    /\ threads.todo[t] # <<>>
    /\ Head(threads.todo[t]) = Lock(m)

\* the thread t is at a lock() call on a mutex that the thread u holds
WaitsFor(t, u) ==
    \E m \in Mutexes : Requests(t, m) /\ threads.held[m] = u

\* C36: no deadlock is reachable between the signal thread and the app
\* thread: over every interleaving of the L2 and L3 handlers, the bind and
\* the sends of the app thread and the close at shutdown, no thread
\* requests a mutex it already holds, the two threads never wait for each
\* other, and every call that locks runs to its end, so that every lock
\* request is granted.
C36_NoDeadlock ==
    /\ [](/\ \A t \in {"main", "app"} : ~WaitsFor(t, t)
          /\ ~(WaitsFor("main", "app") /\ WaitsFor("app", "main"))
          /\ \A t \in {"main", "app"} :
                (threads.todo[t] # <<>> /\ Head(threads.todo[t]).act = "unlock")
                   => threads.held[Head(threads.todo[t]).m] = t
          /\ \A t \in {"main", "app"} :
                threads.todo[t] = <<>> => \A m \in Mutexes : threads.held[m] # t)
    /\ \A t \in {"main", "app"} :
          (threads.todo[t] # <<>>) ~> (threads.todo[t] = <<>>)

\* the app thread holds the context and waits for the loopback device, which
\* main holds inside an L2 handler
C36_Witness ==
    /\ threads.held["context"] = "app"
    /\ Requests("app", "lo")
    /\ threads.held["lo"] = "main"
    /\ threads.held["devices"] = "main"
    /\ threads.held["fifo"] = "main"

\* main waits for the context inside an L3 handler while the app thread
\* holds it together with the TAP device
C36_WitnessContext ==
    /\ Requests("main", "context")
    /\ threads.held["context"] = "app"
    /\ threads.held["eth"] = "app"

\* main closes the devices at shutdown
C36_WitnessStop ==
    /\ threads.main = "exit"
    /\ threads.app = "done"
    /\ threads.held["devices"] = "main"
    /\ threads.held["eth"] = "main"

----------------------------------------------------------------------------
(* The queues under a fair signal loop. *)

\* the entries held by the protocol queues
Enqueued ==
    Len(protoQueue[ETHERTYPE_IPV4]) + Len(protoQueue[ETHERTYPE_ARP])

\* C37: with every raised IRQ taken by the signal loop in the end and no
\* terminal signal, every frame pushed on the loopback FIFO is popped by an
\* L2 handler and every entry of a protocol queue is dequeued by an L3
\* cycle, also behind an entry whose handler failed: at least one loopback
\* IRQ is pending for each frame in the FIFO and one L3 IRQ for each
\* entry queued, and whenever something is queued the FIFO and both queues
\* are empty again later.
C37_NoFrameStuck ==
    /\ [](/\ ~panicked
          /\ Len(loQueue) <= irq[INTR_IRQ_LOOPBACK]
          /\ Enqueued <= irq[INTR_IRQ_L3])
    /\ (loQueue # <<>> \/ Enqueued > 0) ~> (loQueue = <<>> /\ Enqueued = 0)

\* an L3 cycle has returned on a handler error and has left the entry
\* behind the refused one in the same queue
C37_Witness ==
    /\ last.op = "irq_l3"
    /\ last.errs # <<>>
    /\ \E ty \in {ETHERTYPE_IPV4, ETHERTYPE_ARP} :
          /\ Len(deqLog[ty]) = 1
          /\ Len(protoQueue[ty]) = 1

\* a later L3 cycle has dequeued the entry that was left behind
C37_WitnessLater ==
    /\ last.op = "irq_l3"
    /\ Enqueued = 0
    /\ \E ty \in {ETHERTYPE_IPV4, ETHERTYPE_ARP} :
          /\ Len(deqLog[ty]) = 2
          /\ \E k \in 1..Len(last.elog) :
                /\ last.elog[k].ty = ty
                /\ last.elog[k].seq = deqLog[ty][2]
                /\ Len(last.elog) = 1

\* the frame of a local send and the frame of its Echo Reply have both been
\* popped from the loopback FIFO
C37_WitnessLoopback ==
    /\ loQueue = <<>>
    /\ Len(deqLog[ETHERTYPE_IPV4]) = 2
    /\ nArrived = 0

----------------------------------------------------------------------------
(* The ARP cache over resolve calls and ARP receives. *)

\* the addresses the cache of the specification may hold
CacheKeys ==
    {Gateway, HostN, HostOther, Us}

\* the cache holds ip as Resolved and the entry is within its TTL
Fresh(ip) ==
    /\ ip \in DOMAIN arpCache
    /\ arpCache[ip].state = "Resolved"
    /\ now - arpCache[ip].timestamp < ARP_CACHE_TIMEOUT

\* the popped entry e is an ARP message from the protocol address ip that
\* the handler takes: supported header fields, tpa the interface's address
ArpReceiveFrom(e, ip) ==
    /\ e.ty = ETHERTYPE_ARP
    /\ e.ret # "UnsupportedArp"
    /\ ArpMessage_from(e.data).tpa = Iface(e.interface).unicast
    /\ ArpMessage_from(e.data).spa = ip

\* C38: over every sequence of resolve calls and ARP receives, no entry
\* leaves the cache; an entry that is Resolved and within its TTL stays
\* Resolved, and changes only in a step that receives an ARP message from
\* the same spa, to the sha of the latest such message with a fresh
\* timestamp; an entry becomes or is rewritten as Incomplete only by a
\* resolve for that target, which was absent, Incomplete or expired.
C38_ResolvedKept ==
    [][\A ip \in CacheKeys :
          /\ ip \in DOMAIN arpCache => ip \in DOMAIN arpCache'
          /\ Fresh(ip) =>
                /\ arpCache'[ip].state = "Resolved"
                /\ arpCache'[ip] # arpCache[ip] =>
                      /\ last'.op = "irq_l3"
                      /\ \E k \in 1..Len(last'.elog) :
                            /\ ArpReceiveFrom(last'.elog[k], ip)
                            /\ \A j \in (k + 1)..Len(last'.elog) :
                                  ~ArpReceiveFrom(last'.elog[j], ip)
                            /\ arpCache'[ip] =
                                  [state |-> "Resolved",
                                   mac |-> ArpMessage_from(last'.elog[k].data).sha,
                                   timestamp |-> now]
          /\ (/\ ip \in DOMAIN arpCache'
              /\ arpCache'[ip].state = "Incomplete"
              /\ (ip \notin DOMAIN arpCache \/ arpCache'[ip] # arpCache[ip])) =>
                /\ ~Fresh(ip)
                /\ \E k \in 1..Len(last'.rlog) : last'.rlog[k].target = ip
                /\ arpCache'[ip].timestamp = now]_vars

\* a resolve for the gateway has left its Resolved entry, which is within
\* its TTL, as it was
C38_Witness ==
    /\ last.op = "resolve"
    /\ last.arg = <<Gateway>>
    /\ Fresh(Gateway)
    /\ arpCache[Gateway].timestamp < now
    /\ HostN \in DOMAIN arpCache

\* a second ARP message from the gateway's address has replaced the
\* hardware address of its entry and refreshed the timestamp
C38_WitnessLatest ==
    /\ last.op = "irq_l3"
    /\ Fresh(Gateway)
    /\ arpCache[Gateway].mac = MacOther
    /\ arpCache[Gateway].timestamp = TickStep
    /\ \E k \in 1..Len(last.elog) :
          /\ ArpReceiveFrom(last.elog[k], Gateway)
          /\ Gateway \in DOMAIN last.elog[k].cacheBefore
          /\ last.elog[k].cacheBefore[Gateway] =
                [state |-> "Resolved", mac |-> MacG, timestamp |-> 0]

\* a resolve has written Incomplete over an expired Resolved entry
C38_WitnessExpired ==
    /\ last.op = "resolve"
    /\ last.arg = <<Gateway>>
    /\ now = MaxNow
    /\ arpCache[Gateway] =
          [state |-> "Incomplete", mac |-> MAC_ADDRESS_ANY, timestamp |-> MaxNow]
    /\ Len(last.rlog) = 1
    /\ last.rlog[1].before = "Expired"

----------------------------------------------------------------------------
(* ARP replies received. *)

\* the popped entry e is an ARP reply (oper = 2) with the supported header
\* fields whose tpa is the address of the receiving interface
IsArpReplyForMe(e) ==
    /\ e.ty = ETHERTYPE_ARP
    /\ SupportedArp(e.data)
    /\ ForInterface(e.data, e.interface)
    /\ BE16(e.data, 6) = ARP_OPERATION_REPLY

\* C39: an ARP reply (oper = 2) addressed to the interface updates the
\* cache (spa is Resolved to sha afterwards) and makes the stack transmit
\* no frame, so that an exchange of one request and its reply ends there.
C39_ReplyNotAnswered ==
    \A i \in 1..Len(last.elog) :
        IsArpReplyForMe(last.elog[i]) =>
            /\ last.elog[i].ret = "Ok"
            /\ Bytes(last.elog[i].data, 14, 4) \in DOMAIN last.elog[i].cacheAfter
            /\ last.elog[i].cacheAfter[Bytes(last.elog[i].data, 14, 4)].state = "Resolved"
            /\ last.elog[i].cacheAfter[Bytes(last.elog[i].data, 14, 4)].mac =
                  Bytes(last.elog[i].data, 8, 6)
            /\ last.elog[i].tx = <<>>

\* the part of C39 that holds: the reply received updates the cache
C39_ReplyLearnt ==
    \A i \in 1..Len(last.elog) :
        IsArpReplyForMe(last.elog[i]) =>
            /\ last.elog[i].ret = "Ok"
            /\ Bytes(last.elog[i].data, 14, 4) \in DOMAIN last.elog[i].cacheAfter
            /\ last.elog[i].cacheAfter[Bytes(last.elog[i].data, 14, 4)].mac =
                  Bytes(last.elog[i].data, 8, 6)

\* what the stack sends on a reply received is itself an ARP reply for the
\* sender, which an instance of this stack at the sender answers in turn
C39_AnswerIsReply ==
    \A i \in 1..Len(last.elog) :
        (IsArpReplyForMe(last.elog[i]) /\ last.elog[i].tx # <<>>) =>
            /\ Len(last.elog[i].tx) = 1
            /\ last.elog[i].tx[1].dev = "eth"
            /\ last.elog[i].tx[1].ty = ETHERTYPE_ARP
            /\ last.elog[i].tx[1].dst = Bytes(last.elog[i].data, 8, 6)
            /\ BE16(last.elog[i].tx[1].data, 6) = ARP_OPERATION_REPLY
            /\ Bytes(last.elog[i].tx[1].data, 24, 4) = Bytes(last.elog[i].data, 14, 4)
            /\ Bytes(last.elog[i].tx[1].data, 14, 4) = Iface(last.elog[i].interface).unicast

----------------------------------------------------------------------------
(* The two length checks of an IPv4 send. *)

\* the device the send recorded as c went to
SentOn(c) ==
    IF c.dst = Localhost THEN "lo" ELSE "eth"

\* C40: every payload that passes the length check of the IPv4 send
\* (len < device mtu) makes a packet the device send accepts
\* (20 + len <= mtu): no IPv4 send fails at the device with a too-long
\* error after it has drawn an identification or asked for an ARP
\* resolution, on the Ethernet MTU 1500 and on the loopback MTU 65535.
C40_LengthChecksAgree ==
    \A k \in 1..Len(last.slog) :
        last.slog[k].len < Mtu(SentOn(last.slog[k])) =>
            /\ IPV4_HEADER_MIN_LENGTH + last.slog[k].len <= Mtu(SentOn(last.slog[k]))
            /\ last.slog[k].ret # "TooLong"

\* the part of C40 that holds: a payload of at most mtu - 20 bytes is never
\* refused for its length, and one of mtu bytes or more draws no
\* identification
C40_ShortAccepted ==
    \A k \in 1..Len(last.slog) :
        /\ IPV4_HEADER_MIN_LENGTH + last.slog[k].len <= Mtu(SentOn(last.slog[k])) =>
              last.slog[k].ret \notin {"TooLong", "PacketTooLong"}
        /\ last.slog[k].len >= Mtu(SentOn(last.slog[k])) =>
              /\ last.slog[k].ret = "PacketTooLong"
              /\ last.slog[k].idAfter = last.slog[k].idBefore

\* a send refused by the device for its length has drawn an identification
C40_RefusedAfterId ==
    \A k \in 1..Len(last.slog) :
        last.slog[k].ret = "TooLong" =>
            /\ last.slog[k].idAfter = (last.slog[k].idBefore + 1) % 65536
            /\ last.slog[k].tx = <<>>
            /\ last.slog[k].len < Mtu(SentOn(last.slog[k]))
            /\ IPV4_HEADER_MIN_LENGTH + last.slog[k].len > Mtu(SentOn(last.slog[k]))

============================================================================
